---------------------------- MODULE Spec2Model ----------------------------
(***************************************************************************)
(* Verse O'Clock: the offline verse resolution and rendering pipeline of   *)
(* src/unnamed/part_001 (the shared sketch): slot mapping, the LittleFS    *)
(* passage store (toc.bin / entries.bin / texts.bin), the 12-hour fallback *)
(* of loop(), the minute edge trigger and the full/partial refresh flag.   *)
(*                                                                         *)
(* Strings are sequences of one-character strings.  unishox2 is an         *)
(* external library: it is modelled by a small table codec whose output    *)
(* differs in length and content from its input.                           *)
(***************************************************************************)
EXTENDS Integers, Sequences, FiniteSets, TLC

VARIABLES
  pc,                  \* "boot" before setup() has run, "loop" afterwards
  disk,                \* the flash contents found at boot (environment)
  fsMounted,           \* LittleFS.begin succeeded under some label
  fEntriesOpen,        \* static File fEntries is a valid handle
  fTextsOpen,          \* static File fTexts is a valid handle
  toc,                 \* static TocEntry toc[SLOT_COUNT]
  fsOk,                \* bool fsOk
  didFirstFullRefresh, \* bool didFirstFullRefresh
  lastRenderedMinute,  \* int lastRenderedMinute
  setupScreenDrawn,    \* bool setupScreenDrawn
  serverStarted,       \* static bool serverStarted (loop)
  offlineShown,        \* static bool shown (loop, offline without manual time)
  prefsOffline,        \* Preferences "offline"
  prefsManualEpoch,    \* Preferences "mepoch" is non-zero
  tick,                \* what the most recent loop() call observed and did
  call                 \* arguments and result of a function applied on its own

vars == <<pc, disk, fsMounted, fEntriesOpen, fTextsOpen, toc, fsOk,
          didFirstFullRefresh, lastRenderedMinute, setupScreenDrawn,
          serverStarted, offlineShown, prefsOffline, prefsManualEpoch,
          tick, call>>

progVars == <<pc, disk, fsMounted, fEntriesOpen, fTextsOpen, toc, fsOk,
              didFirstFullRefresh, lastRenderedMinute, setupScreenDrawn,
              serverStarted, offlineShown, prefsOffline, prefsManualEpoch,
              tick>>

-----------------------------------------------------------------------------
(* Storage schema and globals                                              *)

SLOT_COUNT == 23 * 59

TocEntrySize == 6

VerseEntrySize == 14

Min(a, b) == IF a < b THEN a ELSE b

Max(a, b) == IF a > b THEN a ELSE b

RECURSIVE Pow256(_)
Pow256(n) == IF n <= 0 THEN 1 ELSE 256 * Pow256(n - 1)

NoTocEntry == [offset |-> 0, count |-> 0]

\* toc[] is held sparsely: the variable maps the indices whose record is not
\* all-zero to that record, and every other element of the array is zero.
ZeroToc == << >>

TocAt(t, i) == IF i \in DOMAIN t THEN t[i] ELSE NoTocEntry

-----------------------------------------------------------------------------
(* Slot mapping                                                            *)

slotIndexFromTimeNoClamp(hour24, minute) == (hour24 - 1) * 59 + (minute - 1)

slotIndexFromTimeHour60(hour24, minute) ==
  LET chap0 == IF hour24 <= 0 THEN 1 ELSE hour24
      vs0   == IF minute <= 0 THEN 1 ELSE minute
      chap  == IF chap0 > 23 THEN 23 ELSE chap0
      vs    == IF vs0 > 59 THEN 59 ELSE vs0
  IN  (chap - 1) * 60 + (vs - 1)

slotIndexFromTime(hour24, minute) ==
  LET chap0 == IF hour24 <= 0 THEN 1 ELSE hour24
      vs0   == IF minute <= 0 THEN 1 ELSE minute
      chap  == IF chap0 > 23 THEN 23 ELSE chap0
      vs    == IF vs0 > 59 THEN 59 ELSE vs0
  IN  (chap - 1) * 59 + (vs - 1)

-----------------------------------------------------------------------------
(* Book names                                                              *)

BOOKS == <<
  "Genesis","Exodus","Leviticus","Numbers","Deuteronomy",
  "Joshua","Judges","Ruth","1 Samuel","2 Samuel","1 Kings","2 Kings",
  "1 Chronicles","2 Chronicles","Ezra","Nehemiah","Esther","Job","Psalms",
  "Proverbs","Ecclesiastes","Song of Solomon","Isaiah","Jeremiah","Lamentations",
  "Ezekiel","Daniel","Hosea","Joel","Amos","Obadiah","Jonah","Micah","Nahum",
  "Habakkuk","Zephaniah","Haggai","Zechariah","Malachi",
  "Matthew","Mark","Luke","John","Acts","Romans","1 Corinthians","2 Corinthians",
  "Galatians","Ephesians","Philippians","Colossians","1 Thessalonians","2 Thessalonians",
  "1 Timothy","2 Timothy","Titus","Philemon","Hebrews","James","1 Peter","2 Peter",
  "1 John","2 John","3 John","Jude","Revelation" >>

\* bookName indexing BOOKS with the id itself.
bookNameZeroBased(id) == IF id >= 1 /\ id < 66 THEN BOOKS[id + 1] ELSE "Unknown"

\* BOOKS[id - 1] of the 0-based array.
bookName(id) == IF id >= 1 /\ id <= 66 THEN BOOKS[id] ELSE "Unknown"

-----------------------------------------------------------------------------
(* The data files.  entries.bin and texts.bin have one fixed content; the  *)
(* images differ in toc.bin, in which files exist and in the partition.    *)

\* The codec's dictionary: one compressed byte expands to a word fragment.
CodecTable == [b \in 1..4 |->
  CASE b = 1 -> <<"F", "o", "r">>
    [] b = 2 -> <<" ">>
    [] b = 3 -> <<"G", "o", "d">>
    [] b = 4 -> <<"s", "o">>]

RECURSIVE Expand(_)
Expand(comp) ==
  IF comp = << >> THEN << >> ELSE CodecTable[Head(comp)] \o Expand(Tail(comp))

\* int unishox2_decompress_simple(in, len, out): the number of bytes written
\* to out, or a negative value for input it cannot decode.
unishox2_decompress_simple(comp) ==
  IF \E i \in 1..Len(comp) : comp[i] \notin DOMAIN CodecTable
    THEN [len |-> -1, out |-> << >>]
    ELSE [len |-> Len(Expand(comp)), out |-> Expand(comp)]

\* texts.bin: bytes 0..2 "For God", bytes 3..5 "so God", byte 6 undecodable.
TextsBin == <<1, 2, 3, 4, 2, 3, 255, 1>>

\* entries.bin: four 14-byte records.
EntriesBin == <<
  [book_id |-> 43, chapter |-> 3, verse |-> 16, text_offset |-> 0, comp_len |-> 3, orig_len |-> 7],
  [book_id |-> 49, chapter |-> 4, verse |-> 30, text_offset |-> 3, comp_len |-> 3, orig_len |-> 6],
  [book_id |-> 19, chapter |-> 16, verse |-> 30, text_offset |-> 6, comp_len |-> 4, orig_len |-> 9],
  [book_id |-> 44, chapter |-> 16, verse |-> 30, text_offset |-> 6, comp_len |-> 2, orig_len |-> 3] >>

FileNames == {"/toc.bin", "/entries.bin", "/texts.bin"}

\* The slots whose toc.bin record varies between images; slot (3,16) always
\* points at record 0 and every other slot is empty.
SlotAM == slotIndexFromTime(4, 30)

SlotPM == slotIndexFromTime(16, 30)

SlotJohn == slotIndexFromTime(3, 16)

\* toc.bin records an image may hold: empty, two good ones (one with
\* count 2), one whose text blob is truncated, one whose blob does not
\* decode, one whose record index lies past the end of entries.bin.
TocChoices == {
  [offset |-> 0, count |-> 0],
  [offset |-> 1, count |-> 1],
  [offset |-> 0, count |-> 2],
  [offset |-> 2, count |-> 1],
  [offset |-> 3, count |-> 1],
  [offset |-> 4, count |-> 1] }

\* The records the images put at slot (4,30): empty, good, truncated blob.
TocChoicesAM == {
  [offset |-> 0, count |-> 0],
  [offset |-> 1, count |-> 1],
  [offset |-> 2, count |-> 1] }

TocBytes == SLOT_COUNT * TocEntrySize

\* Images on which boot succeeds.
HealthyDisks ==
  { [label |-> "littlefs", present |-> FileNames, openable |-> FileNames,
     tocLen |-> TocBytes, am |-> a, pm |-> p] : a \in TocChoicesAM, p \in TocChoices }
  \cup
  { [label |-> "spiffs", present |-> FileNames, openable |-> FileNames,
     tocLen |-> TocBytes, am |-> [offset |-> 1, count |-> 1], pm |-> NoTocEntry] }

\* Images on which boot fails: no mountable partition, a file missing, a
\* file that does not open, toc.bin shorter than 1357 records.
ShortTocLens == {0, TocEntrySize * SlotAM + 5, TocEntrySize * (SlotAM + 1), TocBytes - 1}

FaultyDisks ==
  LET base == [label |-> "littlefs", present |-> FileNames, openable |-> FileNames,
               tocLen |-> TocBytes, am |-> [offset |-> 1, count |-> 1], pm |-> NoTocEntry]
  IN  { [base EXCEPT !.label = "other"] }
      \cup { [base EXCEPT !.present = FileNames \ {f}] : f \in FileNames }
      \cup { [base EXCEPT !.openable = FileNames \ {"/texts.bin"}] }
      \cup { [base EXCEPT !.tocLen = n] : n \in ShortTocLens }

Disks == HealthyDisks \cup FaultyDisks

\* Record i of toc.bin as built offline.
TocFile(d, i) ==
  CASE i = SlotAM   -> d.am
    [] i = SlotPM   -> d.pm
    [] i = SlotJohn -> [offset |-> 0, count |-> 1]
    [] OTHER        -> NoTocEntry

TocFileSlots == {SlotAM, SlotPM, SlotJohn}

-----------------------------------------------------------------------------
(* LittleFS mount and TOC load                                             *)

mountFS(d) == d.label = "littlefs" \/ d.label = "spiffs"

\* toc[] after fToc.read((uint8_t*)toc, need) returned got bytes: records
\* are little-endian {uint32 offset; uint16 count}; bytes never read keep
\* the zero of the static array.
TocRecordAfterRead(d, got, i) ==
  LET have == got - TocEntrySize * i
  IN  [offset |-> IF have >= 4 THEN TocFile(d, i).offset
                  ELSE TocFile(d, i).offset % Pow256(Max(have, 0)),
       count  |-> IF have >= 6 THEN TocFile(d, i).count
                  ELSE TocFile(d, i).count % Pow256(Max(have - 4, 0))]

TocAfterRead(d, got) ==
  [i \in {j \in TocFileSlots : TocRecordAfterRead(d, got, j) # NoTocEntry} |->
     TocRecordAfterRead(d, got, i)]

loadTocIgnoresTexts(d) ==
  IF ~({"/toc.bin", "/entries.bin"} \subseteq d.present)
    THEN [ok |-> FALSE, entries |-> FALSE, texts |-> FALSE, toc |-> ZeroToc]
  ELSE IF ~(FileNames \subseteq d.openable)
    THEN [ok |-> FALSE, entries |-> "/entries.bin" \in d.openable,
          texts |-> "/texts.bin" \in d.openable, toc |-> ZeroToc]
  ELSE LET got == Min(d.tocLen, TocBytes)
       IN  [ok |-> got = TocBytes, entries |-> TRUE, texts |-> TRUE,
            toc |-> TocAfterRead(d, got)]

loadToc(d) ==
  IF ~(FileNames \subseteq d.present)
    THEN [ok |-> FALSE, entries |-> FALSE, texts |-> FALSE, toc |-> ZeroToc]
  ELSE IF ~(FileNames \subseteq d.openable)
    THEN [ok |-> FALSE, entries |-> "/entries.bin" \in d.openable,
          texts |-> "/texts.bin" \in d.openable, toc |-> ZeroToc]
  ELSE LET got == Min(d.tocLen, TocBytes)
       IN  [ok |-> got = TocBytes, entries |-> TRUE, texts |-> TRUE,
            toc |-> TocAfterRead(d, got)]

-----------------------------------------------------------------------------
(* Unishox decode and verse lookup                                         *)

\* Heap bytes of the output buffer that the transform did not write hold
\* whatever the heap held: up to MaxStale of them are non-zero.
MaxStale == 0

\* decodeUnishox(comp, compLen, origLen, out): buf has origLen + 1 bytes,
\* buf[origLen] = 0 ends the C string that becomes out.
decodeUnishox(comp, origLen, stale) ==
  LET d == unishox2_decompress_simple(comp)
  IN  IF d.len < 0 THEN [ok |-> FALSE, out |-> << >>]
      ELSE IF d.len >= origLen
        THEN [ok |-> TRUE, out |-> SubSeq(d.out, 1, origLen)]
        ELSE [ok |-> TRUE,
              out |-> d.out \o [i \in 1..Min(stale, origLen - d.len) |-> "?"]]

\* A failure return that has already stored what it read in the outputs.
NoVersePartial(fault, entryReads, textReads) ==
  [ok |-> FALSE, fault |-> fault,
   text |-> IF textReads > 0 THEN <<"?">> ELSE << >>,
   bookId |-> IF entryReads > 0 THEN 1 ELSE 0, chap |-> 0,
   vs |-> 0, entryReads |-> entryReads, textReads |-> textReads]

NoVerse(fault, entryReads, textReads) ==
  [ok |-> FALSE, fault |-> fault, text |-> << >>, bookId |-> 0, chap |-> 0,
   vs |-> 0, entryReads |-> entryReads, textReads |-> textReads]

\* The read of one VerseEntry at byte position pos of entries.bin (the
\* record indices of the modelled images are far below the 32-bit wrap of
\* idx * sizeof(VerseEntry)).
EntryAt(pos) ==
  IF pos % VerseEntrySize = 0 /\ pos \div VerseEntrySize < Len(EntriesBin)
    THEN <<EntriesBin[(pos \div VerseEntrySize) + 1]>>
    ELSE << >>

\* The read of n bytes at byte position off of texts.bin.
TextAt(off, n) ==
  IF off + n <= Len(TextsBin) THEN <<SubSeq(TextsBin, off + 1, off + n)>> ELSE << >>

\* loadVerse reading the last record of the slot's run instead of the first.
loadVerseOnLastOfRun(t, entriesOpen, textsOpen, slot, stale) ==
  IF slot < 0 \/ slot >= SLOT_COUNT THEN NoVerse("BadSlot", 0, 0)
  ELSE IF TocAt(t, slot).count = 0 THEN NoVerse("NoPassage", 0, 0)
  ELSE IF ~entriesOpen THEN NoVerse("CorruptEntry", 0, 0)
  ELSE LET rd == EntryAt((TocAt(t, slot).offset + TocAt(t, slot).count - 1)
                           * VerseEntrySize)
       IN  IF rd = << >> THEN NoVerse("CorruptEntry", 1, 0)
           ELSE IF ~textsOpen THEN NoVerse("CorruptText", 1, 0)
           ELSE LET ve   == rd[1]
                    comp == TextAt(ve.text_offset, ve.comp_len)
                IN  IF comp = << >> THEN NoVerse("CorruptText", 1, 1)
                    ELSE LET dec == decodeUnishox(comp[1], ve.orig_len, stale)
                         IN  IF ~dec.ok THEN NoVerse("DecodeFailure", 1, 1)
                             ELSE [ok |-> TRUE, fault |-> "None", text |-> dec.out,
                                   bookId |-> ve.book_id, chap |-> ve.chapter,
                                   vs |-> ve.verse, entryReads |-> 1, textReads |-> 1]

\* loadVerse over the in-memory TOC t and the two file handles.  ok is the
\* return value; text, bookId, chap, vs are what the call assigns to its
\* outputs (nothing on failure); entryReads and textReads count the reads
\* of fEntries and fTexts.
loadVerseOn(t, entriesOpen, textsOpen, slot, stale) ==
  IF slot < 0 \/ slot >= SLOT_COUNT THEN NoVerse("BadSlot", 0, 0)
  ELSE IF TocAt(t, slot).count = 0 THEN NoVerse("NoPassage", 0, 0)
  ELSE IF ~entriesOpen THEN NoVerse("CorruptEntry", 0, 0)
  ELSE LET rd == EntryAt(TocAt(t, slot).offset * VerseEntrySize)
       IN  IF rd = << >> THEN NoVerse("CorruptEntry", 1, 0)
           ELSE IF ~textsOpen THEN NoVerse("CorruptText", 1, 0)
           ELSE LET ve   == rd[1]
                    comp == TextAt(ve.text_offset, ve.comp_len)
                IN  IF comp = << >> THEN NoVerse("CorruptText", 1, 1)
                    ELSE LET dec == decodeUnishox(comp[1], ve.orig_len, stale)
                         IN  IF ~dec.ok THEN NoVerse("DecodeFailure", 1, 1)
                             ELSE [ok |-> TRUE, fault |-> "None", text |-> dec.out,
                                   bookId |-> ve.book_id, chap |-> ve.chapter,
                                   vs |-> ve.verse, entryReads |-> 1, textReads |-> 1]

\* loadVerse on handles that a fault of the previous tick left unusable.
loadVerseAfterFault(slot, stale) ==
  IF \E i \in 1..Len(tick.faults) :
       tick.faults[i] \in {"CorruptEntry", "CorruptText", "DecodeFailure"}
    THEN NoVerse("CorruptEntry", 0, 0)
    ELSE loadVerseOn(toc, fEntriesOpen, fTextsOpen, slot, stale)

loadVerse(slot, stale) == loadVerseOn(toc, fEntriesOpen, fTextsOpen, slot, stale)

-----------------------------------------------------------------------------
(* Rendering                                                               *)

NoRender ==
  [painted |-> FALSE, window |-> "none", zone |-> "none", text |-> << >>,
   ref |-> <<"", 0, 0>>, bookId |-> 0, chap |-> 0, vs |-> 0]

\* renderHomeScreen(t, verseText, bookId, chap, vs): the refresh technique
\* it requests and the content of the passage zone.
renderHomeScreenPartialOnly(primed, ready, verseText, bookId, chap, vs) ==
  [painted |-> TRUE,
   window  |-> "partial",
   zone    |-> IF ~ready THEN "diag"
               ELSE IF Len(verseText) = 0 THEN "noverse" ELSE "passage",
   text    |-> verseText,
   ref     |-> IF bookId # 0 THEN <<bookName(bookId), chap, vs>> ELSE <<"", 0, 0>>,
   bookId  |-> bookId, chap |-> chap, vs |-> vs]

renderHomeScreen(primed, ready, verseText, bookId, chap, vs) ==
  [painted |-> TRUE,
   window  |-> IF ~primed THEN "full" ELSE "partial",
   zone    |-> IF ~ready THEN "diag"
               ELSE IF Len(verseText) = 0 THEN "noverse" ELSE "passage",
   text    |-> verseText,
   ref     |-> IF bookId # 0 THEN <<bookName(bookId), chap, vs>> ELSE <<"", 0, 0>>,
   bookId  |-> bookId, chap |-> chap, vs |-> vs]

-----------------------------------------------------------------------------
(* setup / loop                                                            *)

\* Wall-clock readings a loop() call may observe (tm_hour, tm_min).
TickHours == {0, 4, 12, 13, 16}

TickMinutes == {0, 30}

NoCall == [fn |-> "none", a |-> 0, b |-> 0, applied |-> FALSE, result |-> 0]

NoTick ==
  [kind |-> "boot", wifi |-> FALSE, hour |-> -1, minute |-> -1,
   lookups |-> << >>, faults |-> << >>, ok |-> FALSE, setupPaint |-> FALSE,
   render |-> NoRender]

\* The caller's verseText, bookId, chap, vs after a loadVerse call: assigned
\* on success only.
Outputs(prev, r) ==
  IF r.ok THEN [text |-> r.text, bookId |-> r.bookId, chap |-> r.chap, vs |-> r.vs]
  ELSE prev

NoOutputs == [text |-> << >>, bookId |-> 0, chap |-> 0, vs |-> 0]

\* loop(), from "int slot = slotIndexFromTime(...)" to the arguments of
\* renderHomeScreen: the primary lookup and the 12-hour fallback.
resolveNoFallback(ready, hour, minute, stale) ==
  LET slot == slotIndexFromTime(hour, minute)
      r1   == loadVerse(slot, stale)
      o1   == Outputs(NoOutputs, r1)
  IN  IF ~ready
        THEN [lookups |-> << >>, faults |-> << >>, ok |-> FALSE, out |-> NoOutputs]
        ELSE [lookups |-> <<slot>>, faults |-> <<r1.fault>>, ok |-> r1.ok, out |-> o1]

resolveFallbackFromNoon(ready, hour, minute, stale) ==
  LET slot   == slotIndexFromTime(hour, minute)
      slot12 == slotIndexFromTime(hour - 12, minute)
      r1     == loadVerse(slot, stale)
      r2     == loadVerse(slot12, stale)
      o1     == Outputs(NoOutputs, r1)
      o2     == Outputs(o1, r2)
  IN  IF ~ready
        THEN [lookups |-> << >>, faults |-> << >>, ok |-> FALSE, out |-> NoOutputs]
      ELSE IF ~r1.ok /\ hour >= 12
        THEN [lookups |-> <<slot, slot12>>, faults |-> <<r1.fault, r2.fault>>,
              ok |-> r2.ok, out |-> o2]
        ELSE [lookups |-> <<slot>>, faults |-> <<r1.fault>>, ok |-> r1.ok, out |-> o1]

resolveUnguarded(ready, hour, minute, stale) ==
  LET slot   == slotIndexFromTime(hour, minute)
      slot12 == slotIndexFromTime(hour - 12, minute)
      r1     == loadVerse(slot, stale)
      r2     == loadVerse(slot12, stale)
      o1     == Outputs(NoOutputs, r1)
      o2     == Outputs(o1, r2)
  IN  IF ~r1.ok /\ hour > 12
        THEN [lookups |-> <<slot, slot12>>, faults |-> <<r1.fault, r2.fault>>,
              ok |-> r2.ok, out |-> o2]
        ELSE [lookups |-> <<slot>>, faults |-> <<r1.fault>>, ok |-> r1.ok, out |-> o1]

resolve(ready, hour, minute, stale) ==
  LET slot   == slotIndexFromTime(hour, minute)
      slot12 == slotIndexFromTime(hour - 12, minute)
      r1     == loadVerse(slot, stale)
      r2     == loadVerse(slot12, stale)
      o1     == Outputs(NoOutputs, r1)
      o2     == Outputs(o1, r2)
  IN  IF ~ready
        THEN [lookups |-> << >>, faults |-> << >>, ok |-> FALSE, out |-> NoOutputs]
      ELSE IF ~r1.ok /\ hour > 12
        THEN [lookups |-> <<slot, slot12>>, faults |-> <<r1.fault, r2.fault>>,
              ok |-> r2.ok, out |-> o2]
        ELSE [lookups |-> <<slot>>, faults |-> <<r1.fault>>, ok |-> r1.ok, out |-> o1]

Init ==
  /\ pc = "boot"
  /\ disk \in Disks
  /\ fsMounted = FALSE
  /\ fEntriesOpen = FALSE
  /\ fTextsOpen = FALSE
  /\ toc = ZeroToc
  /\ fsOk = FALSE
  /\ didFirstFullRefresh = FALSE
  /\ lastRenderedMinute = -1
  /\ setupScreenDrawn = FALSE
  /\ serverStarted = FALSE
  /\ offlineShown = FALSE
  /\ prefsOffline \in BOOLEAN
  /\ prefsManualEpoch \in BOOLEAN
  /\ tick = NoTick
  /\ call = NoCall

\* fsOk = mountFS() && loadToc(): loadToc runs only on a mounted volume.
setupStore(d) ==
  IF mountFS(d)
    THEN [mounted |-> TRUE, ld |-> loadToc(d)]
    ELSE [mounted |-> FALSE,
          ld |-> [ok |-> FALSE, entries |-> FALSE, texts |-> FALSE, toc |-> ZeroToc]]

Setup ==
  /\ pc = "boot"
  /\ LET st == setupStore(disk)
     IN  /\ fsMounted' = st.mounted
         /\ fEntriesOpen' = st.ld.entries
         /\ fTextsOpen' = st.ld.texts
         /\ toc' = st.ld.toc
         /\ fsOk' = (st.mounted /\ st.ld.ok)
  /\ pc' = "loop"
  /\ UNCHANGED <<disk, didFirstFullRefresh, lastRenderedMinute, setupScreenDrawn,
                 serverStarted, offlineShown, prefsOffline, prefsManualEpoch,
                 tick, call>>

\* if (t.tm_min == lastRenderedMinute) return;
minuteChangedAlways(minute, last) == TRUE

minuteChanged(minute, last) == minute # last

\* loop() forgetting the rendered minute whenever Wi-Fi is down, so that
\* the home screen is painted again as soon as the link is back.
LoopForgetsMinute(req, wifi) ==
  /\ pc = "loop"
  /\ req.kind = "save" => serverStarted
  /\ LET offline == IF req.kind = "save" THEN req.offline ELSE prefsOffline
         manual  == IF req.kind = "save" /\ req.manual THEN TRUE ELSE prefsManualEpoch
     IN
     /\ prefsOffline' = offline
     /\ prefsManualEpoch' = manual
     /\ IF ~wifi THEN
          /\ setupScreenDrawn' = TRUE
          /\ tick' = [NoTick EXCEPT !.kind = "noWifi", !.setupPaint = ~setupScreenDrawn]
          /\ lastRenderedMinute' = -1
          /\ UNCHANGED <<serverStarted, offlineShown, didFirstFullRefresh>>
        ELSE IF offline /\ ~manual THEN
          /\ setupScreenDrawn' = FALSE
          /\ serverStarted' = TRUE
          /\ offlineShown' = TRUE
          /\ tick' = [NoTick EXCEPT !.kind = "offlineNoTime", !.wifi = TRUE]
          /\ UNCHANGED <<lastRenderedMinute, didFirstFullRefresh>>
        ELSE \E timeOk \in BOOLEAN :
          IF ~offline /\ ~timeOk THEN
            /\ setupScreenDrawn' = FALSE
            /\ serverStarted' = TRUE
            /\ tick' = [NoTick EXCEPT !.kind = "noTime", !.wifi = TRUE]
            /\ UNCHANGED <<offlineShown, lastRenderedMinute, didFirstFullRefresh>>
          ELSE \E hour \in TickHours, minute \in TickMinutes, stale \in 0..MaxStale :
            IF ~minuteChanged(minute, lastRenderedMinute) THEN
              /\ setupScreenDrawn' = FALSE
              /\ serverStarted' = TRUE
              /\ tick' = [NoTick EXCEPT !.kind = "sameMinute", !.wifi = TRUE,
                                        !.hour = hour, !.minute = minute]
              /\ UNCHANGED <<offlineShown, lastRenderedMinute, didFirstFullRefresh>>
            ELSE
              \E rs \in {resolve(fsOk, hour, minute, stale)} :
                  /\ setupScreenDrawn' = FALSE
                  /\ serverStarted' = TRUE
                  /\ lastRenderedMinute' = minute
                  /\ didFirstFullRefresh' = TRUE
                  /\ tick' = [kind |-> "render", wifi |-> TRUE, hour |-> hour,
                              minute |-> minute, lookups |-> rs.lookups,
                              faults |-> rs.faults, ok |-> rs.ok,
                              setupPaint |-> FALSE,
                              render |-> renderHomeScreen(didFirstFullRefresh, fsOk,
                                           IF rs.ok THEN rs.out.text ELSE << >>,
                                           rs.out.bookId, rs.out.chap, rs.out.vs)]
                  /\ UNCHANGED offlineShown
  /\ UNCHANGED <<pc, disk, fsMounted, fEntriesOpen, fTextsOpen, toc, fsOk, call>>

\* One call of loop().  req is the HTTP request server.handleClient()
\* dispatches (handleSave with its offline checkbox and manual date), wifi
\* is WiFi.status() == WL_CONNECTED; getLocalTime's result and the local
\* time (tm_hour, tm_min) are read where the code reads them.  The weather
\* refresh and the other HTTP routes write none of the variables above and
\* are left out.
Loop(req, wifi) ==
  /\ pc = "loop"
  /\ req.kind = "save" => serverStarted
  /\ LET offline == IF req.kind = "save" THEN req.offline ELSE prefsOffline
         manual  == IF req.kind = "save" /\ req.manual THEN TRUE ELSE prefsManualEpoch
     IN
     /\ prefsOffline' = offline
     /\ prefsManualEpoch' = manual
     /\ IF ~wifi THEN
          /\ setupScreenDrawn' = TRUE
          /\ tick' = [NoTick EXCEPT !.kind = "noWifi", !.setupPaint = ~setupScreenDrawn]
          /\ UNCHANGED <<serverStarted, offlineShown, lastRenderedMinute,
                         didFirstFullRefresh>>
        ELSE IF offline /\ ~manual THEN
          /\ setupScreenDrawn' = FALSE
          /\ serverStarted' = TRUE
          /\ offlineShown' = TRUE
          /\ tick' = [NoTick EXCEPT !.kind = "offlineNoTime", !.wifi = TRUE]
          /\ UNCHANGED <<lastRenderedMinute, didFirstFullRefresh>>
        ELSE \E timeOk \in BOOLEAN :
          IF ~offline /\ ~timeOk THEN
            /\ setupScreenDrawn' = FALSE
            /\ serverStarted' = TRUE
            /\ tick' = [NoTick EXCEPT !.kind = "noTime", !.wifi = TRUE]
            /\ UNCHANGED <<offlineShown, lastRenderedMinute, didFirstFullRefresh>>
          ELSE \E hour \in TickHours, minute \in TickMinutes, stale \in 0..MaxStale :
            IF ~minuteChanged(minute, lastRenderedMinute) THEN
              /\ setupScreenDrawn' = FALSE
              /\ serverStarted' = TRUE
              /\ tick' = [NoTick EXCEPT !.kind = "sameMinute", !.wifi = TRUE,
                                        !.hour = hour, !.minute = minute]
              /\ UNCHANGED <<offlineShown, lastRenderedMinute, didFirstFullRefresh>>
            ELSE
              \E rs \in {resolve(fsOk, hour, minute, stale)} :
                  /\ setupScreenDrawn' = FALSE
                  /\ serverStarted' = TRUE
                  /\ lastRenderedMinute' = minute
                  /\ didFirstFullRefresh' = TRUE
                  /\ tick' = [kind |-> "render", wifi |-> TRUE, hour |-> hour,
                              minute |-> minute, lookups |-> rs.lookups,
                              faults |-> rs.faults, ok |-> rs.ok,
                              setupPaint |-> FALSE,
                              render |-> renderHomeScreen(didFirstFullRefresh, fsOk,
                                           IF rs.ok THEN rs.out.text ELSE << >>,
                                           rs.out.bookId, rs.out.chap, rs.out.vs)]
                  /\ UNCHANGED offlineShown
  /\ UNCHANGED <<pc, disk, fsMounted, fEntriesOpen, fTextsOpen, toc, fsOk, call>>

Requests ==
  {[kind |-> "none", offline |-> FALSE, manual |-> FALSE]}
  \cup {[kind |-> "save", offline |-> o, manual |-> m] : o \in BOOLEAN, m \in BOOLEAN}

LoopTick == \E req \in Requests, wifi \in BOOLEAN : Loop(req, wifi)

Next == Setup \/ LoopTick

Spec == Init /\ [][Next]_vars

-----------------------------------------------------------------------------
(* slotIndexFromTime on its own: the arguments are drawn at Init and the   *)
(* function is applied to them.                                            *)

\* How far beyond 1..23 and 1..59 the drawn arguments reach.
SlotMargin == 2

SlotHours == (0 - SlotMargin)..(23 + SlotMargin)

SlotMinutes == (0 - SlotMargin)..(59 + SlotMargin)

BootState ==
  /\ pc = "boot"
  /\ fsMounted = FALSE
  /\ fEntriesOpen = FALSE
  /\ fTextsOpen = FALSE
  /\ toc = ZeroToc
  /\ fsOk = FALSE
  /\ didFirstFullRefresh = FALSE
  /\ lastRenderedMinute = -1
  /\ setupScreenDrawn = FALSE
  /\ serverStarted = FALSE
  /\ offlineShown = FALSE
  /\ tick = NoTick

InitSlot ==
  /\ BootState
  /\ disk = [label |-> "littlefs", present |-> FileNames, openable |-> FileNames,
             tocLen |-> TocBytes, am |-> NoTocEntry, pm |-> NoTocEntry]
  /\ prefsOffline = FALSE
  /\ prefsManualEpoch = FALSE
  /\ \E h \in SlotHours, m \in SlotMinutes :
       call = [fn |-> "slotIndexFromTime", a |-> h, b |-> m, applied |-> FALSE,
               result |-> 0]

ApplySlot ==
  /\ call.fn = "slotIndexFromTime"
  /\ ~call.applied
  /\ call' = [call EXCEPT !.applied = TRUE, !.result = slotIndexFromTime(call.a, call.b)]
  /\ UNCHANGED progVars

NextSlot == ApplySlot

SpecSlot == InitSlot /\ [][NextSlot]_vars

SlotApplied == call.fn = "slotIndexFromTime" /\ call.applied

ClampTo(v, lo, hi) == IF v < lo THEN lo ELSE IF v > hi THEN hi ELSE v

\* C2: for every hour24 and minute, also 0, negative and above the range,
\* the slot is that of the pair clamped to 1..23 and 1..59, so it lies in
\* 0..1356, slot(0, m) = slot(1, m) and slot(h, 0) = slot(h, 1).
C2_SlotClamps ==
  SlotApplied =>
    /\ call.result = (ClampTo(call.a, 1, 23) - 1) * 59 + (ClampTo(call.b, 1, 59) - 1)
    /\ call.result \in 0..1356
    /\ (call.a = 0 => call.result = slotIndexFromTime(1, call.b))
    /\ (call.b = 0 => call.result = slotIndexFromTime(call.a, 1))

C2_Witness == SlotApplied /\ call.a = 0 /\ call.b = 61 /\ call.result = 58

-----------------------------------------------------------------------------
(* The tick loop: resolution                                               *)

Rendered == tick.kind = "render"

PrimarySlot == slotIndexFromTime(tick.hour, tick.minute)

FallbackSlot == slotIndexFromTime(tick.hour - 12, tick.minute)

LookupFaults == {"CorruptEntry", "CorruptText", "DecodeFailure"}

\* C3: on a ready store, a tick with hour24 > 12 whose own slot has entry
\* count 0 while the slot of (hour24-12, minute) holds a readable, decodable
\* passage renders exactly that passage: its text, book, chapter and verse.
C3_FallbackRendersAmPassage ==
  (Rendered /\ fsOk /\ tick.hour > 12
     /\ TocAt(toc, PrimarySlot).count = 0
     /\ loadVerse(FallbackSlot, 0).ok) =>
    LET am == loadVerse(FallbackSlot, 0)
    IN  /\ tick.ok
        /\ tick.render.painted
        /\ tick.render.text = am.text
        /\ tick.render.bookId = am.bookId
        /\ tick.render.chap = am.chap
        /\ tick.render.vs = am.vs
        /\ tick.render.ref = <<bookName(am.bookId), am.chap, am.vs>>
        /\ tick.render.zone = "passage"

C3_Witness ==
  /\ Rendered /\ fsOk /\ tick.hour = 16 /\ tick.minute = 30
  /\ disk.pm.count = 0
  /\ tick.lookups = <<SlotPM, SlotAM>>
  /\ tick.render.text = <<"s", "o", " ", "G", "o", "d">>
  /\ tick.render.ref = <<"Ephesians", 4, 30>>

\* C4: a tick performs at most two lookups.  With hour24 <= 12 (also 12
\* and 0) only the primary slot is looked up whatever the outcome; with
\* hour24 > 12 one fallback lookup of the (hour24-12, minute) slot follows
\* exactly when the primary failed, and when that fails too the tick
\* resolves to no passage.  A tick that does not render looks nothing up.
C4_AtMostTwoLookups ==
  /\ Len(tick.lookups) <= 2
  /\ Len(tick.faults) = Len(tick.lookups)
  /\ ~Rendered => tick.lookups = << >>
  /\ (Rendered /\ fsOk /\ tick.hour <= 12) => tick.lookups = <<PrimarySlot>>
  /\ (Rendered /\ fsOk /\ tick.hour > 12) =>
       IF tick.faults[1] = "None"
         THEN tick.lookups = <<PrimarySlot>>
         ELSE tick.lookups = <<PrimarySlot, FallbackSlot>>
  /\ (Rendered /\ Len(tick.lookups) = 2 /\ tick.faults[2] # "None") =>
       (~tick.ok /\ tick.render.zone = "noverse" /\ tick.render.text = << >>)

C4_Witness ==
  /\ Rendered /\ fsOk /\ tick.hour = 16 /\ tick.minute = 30
  /\ tick.lookups = <<SlotPM, SlotAM>>
  /\ tick.faults = <<"NoPassage", "NoPassage">>
  /\ tick.render.zone = "noverse"

\* C5: a primary lookup that fails with CorruptEntry, CorruptText or
\* DecodeFailure is never retried, not even through the 12-hour fallback:
\* the render shows the no-verse message.
C5_FaultNeverRetried ==
  (Rendered /\ Len(tick.faults) >= 1 /\ tick.faults[1] \in LookupFaults) =>
    (Len(tick.lookups) = 1 /\ tick.render.zone = "noverse")

-----------------------------------------------------------------------------
(* The tick loop: minute edge trigger and refresh flag                     *)

\* C6: a tick that reads the time paints the home screen once when its
\* minute differs from lastRenderedMinute and not at all when it is the
\* same, and leaves lastRenderedMinute at the minute it read: the second
\* of two consecutive ticks in one minute is a no-op, a changed minute
\* gives one further paint, and the first tick that obtains a time paints.
C6_MinuteEdgeTrigger ==
  [][ (tick'.kind \in {"render", "sameMinute"}) =>
        /\ (tick'.kind = "render") <=> (tick'.minute # lastRenderedMinute)
        /\ (tick'.kind = "render") <=> tick'.render.painted
        /\ lastRenderedMinute' = tick'.minute
        /\ (tick'.kind = "sameMinute") =>
             UNCHANGED <<lastRenderedMinute, didFirstFullRefresh>>
        /\ (lastRenderedMinute = -1) => (tick'.kind = "render") ]_vars

C6_Witness ==
  /\ tick.kind = "sameMinute"
  /\ tick.minute = 30
  /\ lastRenderedMinute = 30
  /\ ~tick.render.painted

\* C7: didFirstFullRefresh is false at boot, true after the first
\* renderHomeScreen and never false again; the render that finds it false
\* requests the full window and every later one the partial window over
\* the whole frame.
C7_PrimedFlag ==
  /\ ~didFirstFullRefresh
  /\ [][ /\ didFirstFullRefresh => didFirstFullRefresh'
         /\ (tick'.kind = "render") =>
              /\ didFirstFullRefresh'
              /\ tick'.render.window =
                   (IF didFirstFullRefresh THEN "partial" ELSE "full")
         /\ (~didFirstFullRefresh /\ didFirstFullRefresh') =>
              (tick'.kind = "render" /\ tick'.render.window = "full") ]_vars

C7_Witness ==
  /\ Rendered
  /\ didFirstFullRefresh
  /\ tick.render.window = "partial"

-----------------------------------------------------------------------------
(* Boot-time readiness                                                     *)

\* C8: a store that boot left not ready stays not ready: no step sets fsOk,
\* reloads the TOC or reopens the files, every home-screen render shows the
\* diagnostic message, and no tick performs a lookup.
C8_NotReadyIsPermanent ==
  [][ (pc = "loop" /\ ~fsOk) =>
        /\ ~fsOk'
        /\ UNCHANGED <<toc, fsMounted, fEntriesOpen, fTextsOpen>>
        /\ tick'.lookups = << >>
        /\ (tick'.kind = "render") => tick'.render.zone = "diag" ]_vars

C8_Witness ==
  /\ pc = "loop" /\ ~fsOk
  /\ disk.tocLen < TocBytes
  /\ toc # ZeroToc
  /\ Rendered
  /\ tick.render.zone = "diag"
  /\ tick.lookups = << >>

\* C9: after setup fsOk holds exactly when the volume mounted under
\* "littlefs" or "spiffs", the three files exist and opened, and the TOC
\* read returned all 1357 * 6 bytes.
C9_ReadyIffLoaded ==
  pc = "loop" =>
    /\ TocBytes = 1357 * 6
    /\ fsOk <=> /\ disk.label \in {"littlefs", "spiffs"}
                /\ FileNames \subseteq disk.present
                /\ FileNames \subseteq disk.openable
                /\ disk.tocLen >= TocBytes
    /\ fsMounted <=> disk.label \in {"littlefs", "spiffs"}

C9_Witness == pc = "loop" /\ ~fsOk /\ fsMounted /\ disk.present = FileNames \ {"/texts.bin"}

-----------------------------------------------------------------------------
(* loadVerse on its own: called with any slot in any state setup() leaves  *)

LookupSlots == {-1, 0, SlotJohn, SlotAM, SlotPM, SLOT_COUNT - 1, SLOT_COUNT}

CallLoadVerse ==
  /\ pc = "loop"
  /\ \E slot \in LookupSlots, stale \in 0..MaxStale :
       call' = [fn |-> "loadVerse", a |-> slot, b |-> stale, applied |-> TRUE,
                result |-> loadVerse(slot, stale)]
  /\ UNCHANGED progVars

NextLookup == Setup \/ CallLoadVerse

SpecLookup == Init /\ [][NextLookup]_vars

\* C10: loadVerse called while the store is not loaded returns failure
\* without reading entries.bin or texts.bin, and a slot outside 0..1356 is
\* rejected before any table access.
C10_LookupNotReadyFails ==
  (call.fn = "loadVerse" /\ call.applied) =>
    /\ ~fsOk =>
         (~call.result.ok /\ call.result.entryReads = 0 /\ call.result.textReads = 0)
    /\ call.a \notin 0..(SLOT_COUNT - 1) =>
         (~call.result.ok /\ call.result.entryReads = 0 /\ call.result.textReads = 0)

LoadVerseCalled == call.fn = "loadVerse" /\ call.applied

\* The counts a TOC record may carry besides the one on the image.
RunCounts == 1..3

\* C11: on a loaded store and for a slot in 0..1356, a TOC count of 0 makes
\* the lookup fail with no read of entries.bin or texts.bin; a count above 0
\* makes it read one record, the one at index toc[slot].offset, so that a
\* successful result carries that record's book, chapter and verse and the
\* result is the same for every count >= 1.
C11_FirstRecordOnly ==
  (LoadVerseCalled /\ fsOk /\ call.a \in 0..(SLOT_COUNT - 1)) =>
    LET te == TocAt(toc, call.a)
        r  == call.result
    IN  /\ te.count = 0 =>
              (~r.ok /\ r.fault = "NoPassage" /\ r.entryReads = 0 /\ r.textReads = 0)
        /\ te.count > 0 =>
              /\ r.entryReads = 1
              /\ r.ok => /\ te.offset < Len(EntriesBin)
                         /\ r.bookId = EntriesBin[te.offset + 1].book_id
                         /\ r.chap = EntriesBin[te.offset + 1].chapter
                         /\ r.vs = EntriesBin[te.offset + 1].verse
              /\ \A c \in RunCounts :
                   r = loadVerseOn((call.a :> [offset |-> te.offset, count |-> c]),
                                   fEntriesOpen, fTextsOpen, call.a, call.b)

C11_Witness ==
  /\ LoadVerseCalled /\ fsOk /\ call.a = SlotPM
  /\ TocAt(toc, SlotPM) = [offset |-> 0, count |-> 2]
  /\ call.result.ok /\ call.result.bookId = 43 /\ call.result.entryReads = 1

-----------------------------------------------------------------------------
(* decodeUnishox on its own: the arguments are drawn at Init and the       *)
(* function is applied to them.                                            *)

\* The largest orig_len a record passes.
MaxOrigLen == 9

\* The byte runs of texts.bin a record can name.
DecodeBlobs ==
  { SubSeq(TextsBin, o + 1, Min(o + n, Len(TextsBin))) :
      o \in 0..(Len(TextsBin) - 1), n \in 1..Len(TextsBin) }

\* The state of a device on which no function of the sketch has run.
IdleDevice ==
  /\ BootState
  /\ disk = [label |-> "littlefs", present |-> FileNames, openable |-> FileNames,
             tocLen |-> TocBytes, am |-> NoTocEntry, pm |-> NoTocEntry]
  /\ prefsOffline = FALSE
  /\ prefsManualEpoch = FALSE

InitDecode ==
  /\ IdleDevice
  /\ \E comp \in DecodeBlobs, origLen \in 0..MaxOrigLen, stale \in 0..MaxOrigLen :
       call = [fn |-> "decodeUnishox", a |-> comp, b |-> origLen, c |-> stale,
               applied |-> FALSE, result |-> 0]

ApplyDecode ==
  /\ call.fn = "decodeUnishox"
  /\ ~call.applied
  /\ call' = [call EXCEPT !.applied = TRUE,
                          !.result = decodeUnishox(call.a, call.b, call.c)]
  /\ UNCHANGED progVars

NextDecode == ApplyDecode

SpecDecode == InitDecode /\ [][NextDecode]_vars

DecodeApplied == call.fn = "decodeUnishox" /\ call.applied

\* C12: whenever decodeUnishox succeeds for a record whose orig_len is L,
\* the string it returns has exactly L characters, and the transform itself
\* produced exactly L bytes: an output of another length is not returned as
\* a success.
C12_DecodedLengthChecked ==
  (DecodeApplied /\ call.result.ok) =>
    /\ Len(call.result.out) = call.b
    /\ unishox2_decompress_simple(call.a).len = call.b

-----------------------------------------------------------------------------
(* The tick loop: what a failed lookup leaves behind                       *)

\* The record slot names and the read of its blob, on a loaded store.
SlotEntry(slot) == EntryAt(TocAt(toc, slot).offset * VerseEntrySize)

ShortBlob(slot) ==
  /\ TocAt(toc, slot).count > 0
  /\ SlotEntry(slot) # << >>
  /\ TextAt(SlotEntry(slot)[1].text_offset, SlotEntry(slot)[1].comp_len) = << >>

\* C13: a loadVerse call whose blob read comes back short, or that fails at
\* any other step, returns failure and assigns none of its outputs; a tick
\* whose resolution failed hands the renderer the empty text and book,
\* chapter and verse 0, and a tick whose resolution succeeded hands it the
\* outputs of the lookup that succeeded.
C13_FailureLeavesOutputs ==
  /\ pc = "loop" =>
       \A s \in LookupSlots :
         LET r == loadVerse(s, 0)
         IN  /\ (fsOk /\ s \in 0..(SLOT_COUNT - 1) /\ ShortBlob(s)) =>
                  (~r.ok /\ r.fault = "CorruptText")
             /\ ~r.ok => (r.text = << >> /\ r.bookId = 0 /\ r.chap = 0 /\ r.vs = 0)
  /\ (Rendered /\ ~tick.ok) =>
       /\ tick.render.text = << >>
       /\ tick.render.bookId = 0 /\ tick.render.chap = 0 /\ tick.render.vs = 0
       /\ tick.render.ref = <<"", 0, 0>>
       /\ tick.render.zone # "passage"
  /\ (Rendered /\ tick.ok) =>
       LET r == loadVerse(tick.lookups[Len(tick.lookups)], 0)
       IN  /\ r.ok
           /\ tick.render.text = r.text
           /\ tick.render.bookId = r.bookId
           /\ tick.render.chap = r.chap
           /\ tick.render.vs = r.vs

C13_Witness ==
  /\ Rendered /\ fsOk /\ ~tick.ok
  /\ tick.faults = <<"CorruptText">>
  /\ ShortBlob(PrimarySlot)
  /\ tick.render.painted /\ tick.render.zone = "noverse"

-----------------------------------------------------------------------------
(* Text layout: wrapLines                                                  *)

\* String::substring(left, right): the characters at the 0-based indices
\* left..right-1, with right clamped to the length.
substring(s, left, right) ==
  IF left >= Len(s) THEN << >> ELSE SubSeq(s, left + 1, Min(right, Len(s)))

\* isspace(), by which String::trim() strips both ends.
IsSpace(c) == c \in {" ", "\t", "\n", "\r"}

trimNoOp(s) == s

\* String::trim().
trim(s) ==
  LET keep == {i \in 1..Len(s) : ~IsSpace(s[i])}
  IN  IF keep = {} THEN << >>
      ELSE SubSeq(s, CHOOSE i \in keep : \A j \in keep : i <= j,
                     CHOOSE i \in keep : \A j \in keep : i >= j)

\* The two fonts wrapLines is called with.
Fonts == {"FreeSans12pt7b", "FreeSans18pt7b"}

\* The advance of one glyph, in pixels of a panel scaled down to the widths
\* of PanelWidths; a character outside the font's range has no glyph.
xAdvance(font, c) ==
  LET small == CASE c = " "  -> 1
                 [] c = "."  -> 1
                 [] c = "i"  -> 1
                 [] c = "M"  -> 5
                 [] c = "\t" -> 0
                 [] OTHER    -> 2
  IN  IF font = "FreeSans18pt7b" THEN small + (small + 1) \div 2 ELSE small

\* textWidth(str): the width getTextBounds reports for a font whose string
\* width is the sum of its glyph advances.
RECURSIVE textWidth(_, _)
textWidth(font, str) ==
  IF str = << >> THEN 0
  ELSE xAdvance(font, Head(str)) + textWidth(font, Tail(str))

\* "Skip leading spaces": the first index at or after start that holds no
\* ' ', or the length.
skipSpaces(s, start) ==
  LET stop == {i \in start..(Len(s) - 1) : s[i + 1] # " "}
  IN  IF stop = {} THEN Len(s) ELSE CHOOSE i \in stop : \A j \in stop : i <= j

\* The inner while: end stops at the first index whose candidate
\* s.substring(start, end + 1) is wider than maxWidth, or at the length.
scanEnd(font, s, start, maxWidth) ==
  LET over == {e \in start..(Len(s) - 1) :
                 textWidth(font, substring(s, start, e + 1)) > maxWidth}
  IN  IF over = {} THEN Len(s) ELSE CHOOSE e \in over : \A j \in over : e <= j

\* lastSpace when the inner while stops at end: the last ' ' at an index in
\* start..end (the index end itself is examined before its candidate is
\* measured), or -1.
lastSpaceBefore(s, start, end) ==
  LET sp == {i \in start..Min(end, Len(s) - 1) : s[i + 1] = " "}
  IN  IF sp = {} THEN -1 ELSE CHOOSE i \in sp : \A j \in sp : i >= j

\* A cut that never goes back to a space.
lineCutHard(s, start, end, lastSpace) == IF end >= Len(s) THEN Len(s) ELSE end

\* The cut: the end of the text, else the last space if it lies past the
\* line start, else a forced break at end.
lineCut(s, start, end, lastSpace) ==
  IF end >= Len(s) THEN Len(s)
  ELSE IF lastSpace > start THEN lastSpace
  ELSE end

\* A line that loses the character before its cut.
lineOfDropsLast(s, start, cut) == trim(substring(s, start, cut - 1))

lineOfUntrimmed(s, start, cut) == substring(s, start, cut)

\* String line = s.substring(start, cut); line.trim();
lineOf(s, start, cut) == trim(substring(s, start, cut))

\* The outer while without its lineCount < maxLines test.
RECURSIVE wrapLoopNoLimit(_, _, _, _, _, _)
wrapLoopNoLimit(font, s, maxWidth, maxLines, start, lines) ==
  IF ~(start < Len(s))
    THEN [start |-> start, lines |-> lines, cuts |-> << >>, iters |-> 0]
  ELSE LET st == skipSpaces(s, start)
       IN  IF st >= Len(s)
             THEN [start |-> st, lines |-> lines, cuts |-> << >>, iters |-> 1]
           ELSE LET end  == scanEnd(font, s, st, maxWidth)
                    cut  == lineCut(s, st, end, lastSpaceBefore(s, st, end))
                    line == lineOf(s, st, cut)
                    next == IF cut < Len(s) /\ s[cut + 1] = " " THEN cut + 1 ELSE cut
                IN  IF line = << >>
                      THEN [start |-> st, lines |-> lines, cuts |-> << >>, iters |-> 1]
                    ELSE LET rest == wrapLoopNoLimit(font, s, maxWidth, maxLines, next,
                                                     Append(lines, line))
                         IN  [start |-> rest.start, lines |-> rest.lines,
                              cuts  |-> <<[st |-> st, end |-> end, cut |-> cut,
                                           next |-> next]>> \o rest.cuts,
                              iters |-> 1 + rest.iters]

\* The outer while of wrapLines from the position start with the lines
\* emitted so far: the position it stops at, the lines, for each line
\* emitted from here on its start, the end the scan stopped at, its cut and
\* the start of the next line, and the number of times the loop body was
\* entered.
RECURSIVE wrapLoop(_, _, _, _, _, _)
wrapLoop(font, s, maxWidth, maxLines, start, lines) ==
  IF ~(start < Len(s) /\ Len(lines) < maxLines)
    THEN [start |-> start, lines |-> lines, cuts |-> << >>, iters |-> 0]
  ELSE LET st == skipSpaces(s, start)
       IN  IF st >= Len(s)
             THEN [start |-> st, lines |-> lines, cuts |-> << >>, iters |-> 1]
           ELSE LET end  == scanEnd(font, s, st, maxWidth)
                    cut  == lineCut(s, st, end, lastSpaceBefore(s, st, end))
                    line == lineOf(s, st, cut)
                    next == IF cut < Len(s) /\ s[cut + 1] = " " THEN cut + 1 ELSE cut
                IN  IF line = << >>
                      THEN [start |-> st, lines |-> lines, cuts |-> << >>, iters |-> 1]
                    ELSE LET rest == wrapLoop(font, s, maxWidth, maxLines, next,
                                              Append(lines, line))
                         IN  [start |-> rest.start, lines |-> rest.lines,
                              cuts  |-> <<[st |-> st, end |-> end, cut |-> cut,
                                           next |-> next]>> \o rest.cuts,
                              iters |-> 1 + rest.iters]

Dots == <<".", ".", ".">>

withEllipsisUnchecked(font, maxWidth, last) == last \o Dots

\* String withDots = last + "..."; kept if it fits.
withEllipsis(font, maxWidth, last) ==
  IF textWidth(font, last \o Dots) <= maxWidth THEN last \o Dots ELSE last

\* wrapLines(sIn, maxWidth, maxLines, font, outLines): the lines stored in
\* outLines[0 .. lineCount-1]; the return value is their number.
wrapLines(font, sIn, maxWidth, maxLines) ==
  LET s == trim(sIn)
  IN  IF Len(s) = 0 THEN << >>
      ELSE LET w == wrapLoop(font, s, maxWidth, maxLines, 0, << >>)
               n == Len(w.lines)
           IN  IF w.start < Len(s) /\ n > 0
                 THEN [w.lines EXCEPT ![n] = withEllipsis(font, maxWidth, w.lines[n])]
                 ELSE w.lines

-----------------------------------------------------------------------------
(* wrapLines on its own: the arguments are drawn at Init and the function  *)
(* is applied to them.                                                     *)

MaxTextLen == 4

MaxWidth == 6

MaxLines == 3

\* The characters of the drawn texts: a space, a tab, a narrow and a wide
\* letter.
WrapChars == {" ", "\t", "i", "M"}

WrapTexts == UNION { [1..n -> WrapChars] : n \in 0..MaxTextLen }

InitWrap ==
  /\ IdleDevice
  /\ \E text \in WrapTexts, maxWidth \in 0..MaxWidth, maxLines \in 0..MaxLines,
        font \in Fonts :
       call = [fn |-> "wrapLines", a |-> text, b |-> maxWidth, c |-> maxLines,
               font |-> font, applied |-> FALSE, result |-> << >>]

ApplyWrap ==
  /\ call.fn = "wrapLines"
  /\ ~call.applied
  /\ call' = [call EXCEPT !.applied = TRUE,
                          !.result = wrapLines(call.font, call.a, call.b, call.c)]
  /\ UNCHANGED progVars

NextWrap == ApplyWrap

SpecWrap == InitWrap /\ [][NextWrap]_vars

WrapApplied == call.fn = "wrapLines" /\ call.applied

\* C14: for every text, width budget W >= 0 and line limit N >= 0, under a
\* font whose string width is the sum of non-negative glyph advances,
\* wrapLines returns at most N lines and every line it returns, the last one
\* with its ellipsis included, measures at most W.
C14_LinesFit ==
  WrapApplied =>
    /\ \A c \in WrapChars \cup {"."} : xAdvance(call.font, c) >= 0
    /\ Len(call.result) <= call.c
    /\ \A i \in 1..Len(call.result) : textWidth(call.font, call.result[i]) <= call.b

C14_Witness ==
  /\ WrapApplied /\ call.font = "FreeSans12pt7b"
  /\ call.a = <<"i", " ", "i", "M">> /\ call.b = 5 /\ call.c = 1
  /\ call.result = << <<"i", ".", ".", ".">> >>

\* C15: wrapLines returns zero lines for the empty string and for every
\* text made only of whitespace, whatever the width budget, the line limit
\* and the font.
C15_BlankGivesNoLines ==
  (WrapApplied /\ \A i \in 1..Len(call.a) : IsSpace(call.a[i])) =>
    call.result = << >>

C15_Witness ==
  /\ WrapApplied /\ call.a = <<" ", "\t", " ">> /\ call.b = MaxWidth /\ call.c = MaxLines
  /\ call.result = << >>

\* C16: every line wrapLines emits is non-empty and neither starts nor ends
\* with a space, and when the first character of a line does not fit the
\* width budget the function stops without emitting a line for it.
C16_LinesTrimmedNonEmpty ==
  WrapApplied =>
    /\ \A i \in 1..Len(call.result) :
         LET line == call.result[i]
         IN  /\ line # << >>
             /\ line[1] # " "
             /\ line[Len(line)] # " "
    /\ LET s == trim(call.a)
       IN  (s # << >> /\ xAdvance(call.font, s[1]) > call.b) => call.result = << >>

C16_Witness ==
  /\ WrapApplied /\ call.font = "FreeSans12pt7b"
  /\ call.a = <<"i", " ", " ", "M">> /\ call.b = 4 /\ call.c = 2
  /\ Len(call.result) = 1 /\ call.result[1][1] = "i"

\* C17: wrapLines appends "..." to the last emitted line only, and exactly
\* when maxLines lines were filled, input is left over and the last line
\* with "..." fits the width budget; with all input consumed, or with fewer
\* than maxLines lines emitted, no line carries an ellipsis, and every other
\* line is as the loop emitted it.
C17_EllipsisOnlyWhenFull ==
  WrapApplied =>
    LET s == trim(call.a)
        w == wrapLoop(call.font, s, call.b, call.c, 0, << >>)
        n == Len(call.result)
    IN  /\ n = Len(w.lines)
        /\ \A i \in 1..(n - 1) : call.result[i] = w.lines[i]
        /\ n > 0 =>
             /\ call.result[n] \in {w.lines[n], w.lines[n] \o Dots}
             /\ call.result[n] = w.lines[n] \o Dots <=>
                  /\ n = call.c
                  /\ w.start < Len(s)
                  /\ textWidth(call.font, w.lines[n] \o Dots) <= call.b

-----------------------------------------------------------------------------
(* Time formatting: formatTime on its own                                  *)

DigitChars == <<"0", "1", "2", "3", "4", "5", "6", "7", "8", "9">>

\* String(int) for the values of tm_hour and tm_min: decimal, no padding.
StringOfInt(v) ==
  IF v < 10 THEN <<DigitChars[v + 1]>>
  ELSE <<DigitChars[(v \div 10) + 1], DigitChars[(v % 10) + 1]>>

two(v) == IF v < 10 THEN <<"0">> \o StringOfInt(v) ELSE StringOfInt(v)

formatTimeHourZero(clock24, tm_hour, tm_min) ==
  IF clock24
    THEN [time |-> two(tm_hour) \o <<":">> \o two(tm_min),
          hasAmPm |-> FALSE, ampmOut |-> << >>]
    ELSE [time |-> StringOfInt(tm_hour % 12) \o <<":">> \o two(tm_min),
          hasAmPm |-> TRUE,
          ampmOut |-> IF tm_hour >= 12 THEN <<"P", "M">> ELSE <<"A", "M">>]

\* formatTime(t, hasAmPm, ampmOut) with getPrefsClock24() = clock24: the
\* returned string and the two reference outputs.
formatTime(clock24, tm_hour, tm_min) ==
  IF clock24
    THEN [time |-> two(tm_hour) \o <<":">> \o two(tm_min),
          hasAmPm |-> FALSE, ampmOut |-> << >>]
    ELSE LET h12 == IF tm_hour % 12 = 0 THEN 12 ELSE tm_hour % 12
         IN  [time |-> StringOfInt(h12) \o <<":">> \o two(tm_min),
              hasAmPm |-> TRUE,
              ampmOut |-> IF tm_hour >= 12 THEN <<"P", "M">> ELSE <<"A", "M">>]

InitTime ==
  /\ IdleDevice
  /\ \E clock24 \in BOOLEAN, h \in 0..23, m \in 0..59 :
       call = [fn |-> "formatTime", a |-> h, b |-> m, clock24 |-> clock24,
               applied |-> FALSE, result |-> 0]

ApplyTime ==
  /\ call.fn = "formatTime"
  /\ ~call.applied
  /\ call' = [call EXCEPT !.applied = TRUE,
                          !.result = formatTime(call.clock24, call.a, call.b)]
  /\ UNCHANGED progVars

NextTime == ApplyTime

SpecTime == InitTime /\ [][NextTime]_vars

TimeApplied == call.fn = "formatTime" /\ call.applied

DigitValue(c) ==
  CASE c = "0" -> 0 [] c = "1" -> 1 [] c = "2" -> 2 [] c = "3" -> 3 [] c = "4" -> 4
    [] c = "5" -> 5 [] c = "6" -> 6 [] c = "7" -> 7 [] c = "8" -> 8 [] c = "9" -> 9
    [] OTHER -> -100

\* The number a string of one or two digits reads as.
Reads(str) ==
  IF Len(str) = 1 THEN DigitValue(str[1])
  ELSE 10 * DigitValue(str[1]) + DigitValue(str[2])

\* C18: in 24-hour mode formatTime returns the five characters HH:MM, both
\* fields zero-padded, with hasAmPm false and an empty AM/PM token; in
\* 12-hour mode it returns hour ":" MM with the hour in 1..12 (0 and 12 read
\* 12), the minute zero-padded, hasAmPm true and the token "AM" for hours
\* 0..11 and "PM" for hours 12..23, the time string holding digits and the
\* colon only.
C18_FormatTime ==
  TimeApplied =>
    LET t  == call.result.time
        k  == Len(t) - 2
    IN  /\ k \in {2, 3}
        /\ t[k] = ":"
        /\ \A i \in (1..Len(t)) \ {k} : DigitValue(t[i]) \in 0..9
        /\ Reads(SubSeq(t, k + 1, k + 2)) = call.b
        /\ call.clock24 =>
             /\ k = 3
             /\ Reads(SubSeq(t, 1, 2)) = call.a
             /\ ~call.result.hasAmPm
             /\ call.result.ampmOut = << >>
        /\ ~call.clock24 =>
             /\ Reads(SubSeq(t, 1, k - 1)) \in 1..12
             /\ Reads(SubSeq(t, 1, k - 1)) % 12 = call.a % 12
             /\ call.result.hasAmPm
             /\ call.result.ampmOut =
                  (IF call.a \in 0..11 THEN <<"A", "M">> ELSE <<"P", "M">>)

C18_Witness ==
  /\ TimeApplied /\ ~call.clock24 /\ call.a = 0 /\ call.b = 5
  /\ call.result.time = <<"1", "2", ":", "0", "5">>
  /\ call.result.ampmOut = <<"A", "M">>

-----------------------------------------------------------------------------
(* The passage zone of renderHomeScreen on its own                         *)

\* display.width() of a panel scaled down to the glyph advances of xAdvance.
PanelWidths == {7, 9}

\* int blockMaxW = (int)(W * 0.74f)
blockMaxW(W) == (W * 74) \div 100

verseMaxLinesSix(glance) == 6

\* The line limit passed to wrapLines: 2 in glance mode, else 6.
verseMaxLines(glance) == IF glance THEN 2 ELSE 6

verseFont(glance) == IF glance THEN "FreeSans18pt7b" ELSE "FreeSans12pt7b"

\* Zone 2 of a screen whose content renderHomeScreen chose: the reference
\* and the text lines it prints, none outside the passage branch.
passageZone(glance, W, screen) ==
  IF screen.zone = "passage"
    THEN [ref   |-> screen.ref,
          lines |-> wrapLines(verseFont(glance), screen.text, blockMaxW(W),
                              verseMaxLines(glance))]
    ELSE [ref |-> <<"", 0, 0>>, lines |-> << >>]

\* What loop() hands to renderHomeScreen: nothing, a blank text, the two
\* readable records, a text longer than six lines.
RenderPassages ==
  { NoOutputs,
    [text |-> <<" ">>, bookId |-> 43, chap |-> 3, vs |-> 16],
    [text |-> Expand(<<1, 2, 3>>), bookId |-> 43, chap |-> 3, vs |-> 16],
    [text |-> Expand(<<4, 2, 3>>), bookId |-> 49, chap |-> 4, vs |-> 30],
    [text |-> Expand(<<1, 2, 3, 2, 4, 2, 3, 2, 4>>), bookId |-> 43, chap |-> 3, vs |-> 16] }

InitRender ==
  /\ IdleDevice
  /\ \E ready \in BOOLEAN, primed \in BOOLEAN, glance \in BOOLEAN,
        W \in PanelWidths, p \in RenderPassages :
       call = [fn |-> "renderHomeScreen", ready |-> ready, primed |-> primed,
               glance |-> glance, W |-> W, a |-> p, applied |-> FALSE,
               screen |-> NoRender, result |-> [ref |-> <<"", 0, 0>>, lines |-> << >>]]

ApplyRender ==
  /\ call.fn = "renderHomeScreen"
  /\ ~call.applied
  /\ \E screen \in {renderHomeScreen(call.primed, call.ready, call.a.text,
                                     call.a.bookId, call.a.chap, call.a.vs)} :
       call' = [call EXCEPT !.applied = TRUE,
                            !.screen = screen,
                            !.result = passageZone(call.glance, call.W, screen)]
  /\ UNCHANGED progVars

NextRender == ApplyRender

SpecRender == InitRender /\ [][NextRender]_vars

RenderApplied == call.fn = "renderHomeScreen" /\ call.applied

\* C19: the passage zone of a home-screen render shows one of three
\* contents: the diagnostic message exactly when the store is not ready;
\* else the no-verse message exactly when no passage text was resolved; else
\* the reference line and the text as wrapLines wraps it in 74% of the panel
\* width, at most 2 lines in glance mode and at most 6 otherwise.
C19_PassageZonePriority ==
  RenderApplied =>
    LET z == call.screen.zone
    IN  /\ z \in {"diag", "noverse", "passage"}
        /\ z = "diag" <=> ~call.ready
        /\ z = "noverse" <=> (call.ready /\ call.a.text = << >>)
        /\ z # "passage" => call.result = [ref |-> <<"", 0, 0>>, lines |-> << >>]
        /\ z = "passage" =>
             /\ call.result.ref = <<bookName(call.a.bookId), call.a.chap, call.a.vs>>
             /\ Len(call.result.lines) <= (IF call.glance THEN 2 ELSE 6)
             /\ \A i \in 1..Len(call.result.lines) :
                  textWidth(verseFont(call.glance), call.result.lines[i])
                    <= (call.W * 74) \div 100
             /\ \/ call.result.lines = << >>
                \/ call.result.lines[1][1] = call.a.text[1]

C19_Witness ==
  /\ RenderApplied /\ call.ready /\ call.glance /\ call.W = 9
  /\ call.a.text = Expand(<<1, 2, 3, 2, 4, 2, 3, 2, 4>>)
  /\ call.screen.zone = "passage"
  /\ Len(call.result.lines) = 2
  /\ call.result.ref = <<"John", 3, 16>>

-----------------------------------------------------------------------------
(* The tick loop: independence of a tick from the ticks before it          *)

\* A lookup on the store as boot loads it from the image, with no use of the
\* running device's state.
FreshLookup(slot) == loadVerseOn(loadToc(disk).toc, TRUE, TRUE, slot, 0)

\* The passage (hour, minute) resolves to on the image: the primary lookup,
\* and after noon the lookup twelve hours earlier when the primary failed.
FreshResolution(hour, minute) ==
  LET r1 == FreshLookup(slotIndexFromTime(hour, minute))
      r2 == FreshLookup(slotIndexFromTime(hour - 12, minute))
  IN  IF ~r1.ok /\ hour > 12 THEN Outputs(NoOutputs, r2) @@ [ok |-> r2.ok]
      ELSE Outputs(NoOutputs, r1) @@ [ok |-> r1.ok]

\* C20: on a ready store the passage a tick resolves is the one its (hour,
\* minute) resolves to on the image, whatever lookups succeeded, came back
\* empty or failed in earlier ticks, so two runs reaching the same (hour,
\* minute) resolve alike; and after boot no step changes the TOC array or
\* the readiness flag.
C20_TickIndependentOfHistory ==
  /\ [](Rendered /\ fsOk =>
          LET f == FreshResolution(tick.hour, tick.minute)
          IN  /\ tick.ok = f.ok
              /\ tick.render.text = f.text
              /\ tick.render.bookId = f.bookId
              /\ tick.render.chap = f.chap
              /\ tick.render.vs = f.vs)
  /\ [][pc = "loop" => (toc' = toc /\ fsOk' = fsOk)]_vars

C20_Witness ==
  /\ Rendered /\ fsOk /\ tick.ok
  /\ tick.render.window = "partial"
  /\ tick.hour = 4 /\ tick.minute = 30
  /\ FreshLookup(SlotPM).fault = "CorruptText"
  /\ tick.render.bookId = 49

-----------------------------------------------------------------------------
(* Network features: weather refresh and the OTA routes                    *)

\* The version this build carries.
FW_VERSION == "dev"

\* The bytes of the firmware asset a release serves.
ImageSize == 2

\* The size Update.begin(UPDATE_SIZE_UNKNOWN) takes: the whole OTA
\* partition, larger than any image.
PartitionSize == ImageSize + 1

\* What the network and the flash answer during one request: the Wi-Fi
\* link, the release lookup and the tag it names, the asset download (begin,
\* HTTP code, Content-Length, bytes the stream delivers) and the Update
\* library (begin, image verification at end).
OtaAnswers ==
  [wifi : BOOLEAN, lookupOk : BOOLEAN, latest : {FW_VERSION, "v25.12.0"},
   httpBegin : BOOLEAN, code : {200, 404}, len : {-1, ImageSize},
   beginOk : BOOLEAN, streamed : 0..ImageSize, verifyOk : BOOLEAN]

\* An answer nobody asks for is left at its good value: the answers after
\* the first step that stops a request are never read.
OtaAsked(e) ==
  LET good == [wifi |-> TRUE, lookupOk |-> TRUE, latest |-> "v25.12.0",
               httpBegin |-> TRUE, code |-> 200, len |-> ImageSize,
               beginOk |-> TRUE, streamed |-> ImageSize, verifyOk |-> TRUE]
      upTo(fields) == [f \in DOMAIN e |-> IF f \in fields THEN e[f] ELSE good[f]]
  IN  IF ~e.wifi THEN upTo({"wifi"})
      ELSE IF ~e.lookupOk THEN upTo({"wifi", "lookupOk"})
      ELSE IF e.latest = FW_VERSION THEN upTo({"wifi", "lookupOk", "latest"})
      ELSE IF ~e.httpBegin THEN upTo({"wifi", "lookupOk", "latest", "httpBegin"})
      ELSE IF e.code # 200 THEN upTo({"wifi", "lookupOk", "latest", "httpBegin", "code"})
      ELSE IF ~e.beginOk
        THEN upTo({"wifi", "lookupOk", "latest", "httpBegin", "code", "len", "beginOk"})
      ELSE e

OtaEnvs == { e \in OtaAnswers : e = OtaAsked(e) }

\* Weather refresh of one tick: started only online and when due.
weatherRefresh(offline, connected, due) == ~offline /\ connected /\ due

\* otaGetLatestInfo: no request without Wi-Fi, else one GET to the release
\* server.
otaGetLatestInfo(env) ==
  IF ~env.wifi THEN [ok |-> FALSE, contacted |-> FALSE, latest |-> ""]
  ELSE IF ~env.lookupOk THEN [ok |-> FALSE, contacted |-> TRUE, latest |-> ""]
  ELSE [ok |-> TRUE, contacted |-> TRUE, latest |-> env.latest]

OtaOutcome(status, contacted, latest, downloaded, code, size, written, ended) ==
  [status |-> status, contacted |-> contacted, latest |-> latest,
   downloaded |-> downloaded, code |-> code, size |-> size, written |-> written,
   ended |-> ended, restarted |-> status = "restart"]

\* handleOtaCheck: reports whether the latest release differs.
handleOtaCheck(env) ==
  LET info == otaGetLatestInfo(env)
  IN  OtaOutcome(IF ~info.ok THEN "lookupError"
                 ELSE IF info.latest # FW_VERSION THEN "updateAvailable"
                 ELSE "upToDate",
                 info.contacted, info.latest, FALSE, 0, 0, 0, FALSE)

\* Update.writeStream: the bytes the stream delivered, at most the size
\* Update.begin was given.
writeStream(size, streamed) == Min(streamed, size)

\* Update.isFinished(): all of the size given to Update.begin was written.
isFinished(size, written) == written = size

\* Update.end(): fails on a premature end, else verifies the image and
\* selects the new boot partition.
UpdateEnd(size, written, verifyOk) == isFinished(size, written) /\ verifyOk

\* handleOtaApply restarting after the stream ended, without asking
\* Update.end() or Update.isFinished().
handleOtaApplyUnverified(env) ==
  IF ~env.wifi THEN OtaOutcome("wifiNotConnected", FALSE, "", FALSE, 0, 0, 0, FALSE)
  ELSE LET info == otaGetLatestInfo(env)
       IN
       IF ~info.ok
         THEN OtaOutcome("lookupError", info.contacted, "", FALSE, 0, 0, 0, FALSE)
       ELSE IF info.latest = FW_VERSION
         THEN OtaOutcome("upToDate", TRUE, info.latest, FALSE, 0, 0, 0, FALSE)
       ELSE IF ~env.httpBegin
         THEN OtaOutcome("beginDownloadFailed", TRUE, info.latest, FALSE, 0, 0, 0, FALSE)
       ELSE IF env.code # 200
         THEN OtaOutcome("httpError", TRUE, info.latest, TRUE, env.code, 0, 0, FALSE)
       ELSE IF ~env.beginOk
         THEN OtaOutcome("updateBeginFailed", TRUE, info.latest, TRUE, env.code, 0, 0, FALSE)
       ELSE LET size    == IF env.len > 0 THEN env.len ELSE PartitionSize
                written == writeStream(size, env.streamed)
            IN  OtaOutcome("restart", TRUE, info.latest, TRUE, env.code,
                           size, written, UpdateEnd(size, written, env.verifyOk))

\* handleOtaApply: release lookup, version comparison, download, flash,
\* restart.
handleOtaApply(env) ==
  IF ~env.wifi THEN OtaOutcome("wifiNotConnected", FALSE, "", FALSE, 0, 0, 0, FALSE)
  ELSE LET info == otaGetLatestInfo(env)
       IN
       IF ~info.ok
         THEN OtaOutcome("lookupError", info.contacted, "", FALSE, 0, 0, 0, FALSE)
       ELSE IF info.latest = FW_VERSION
         THEN OtaOutcome("upToDate", TRUE, info.latest, FALSE, 0, 0, 0, FALSE)
       ELSE IF ~env.httpBegin
         THEN OtaOutcome("beginDownloadFailed", TRUE, info.latest, FALSE, 0, 0, 0, FALSE)
       ELSE IF env.code # 200
         THEN OtaOutcome("httpError", TRUE, info.latest, TRUE, env.code, 0, 0, FALSE)
       ELSE IF ~env.beginOk
         THEN OtaOutcome("updateBeginFailed", TRUE, info.latest, TRUE, env.code, 0, 0, FALSE)
       ELSE LET size    == IF env.len > 0 THEN env.len ELSE PartitionSize
                written == writeStream(size, env.streamed)
            IN  IF ~UpdateEnd(size, written, env.verifyOk)
                  THEN OtaOutcome("updateEndFailed", TRUE, info.latest, TRUE, env.code,
                                  size, written, FALSE)
                ELSE IF ~isFinished(size, written)
                  THEN OtaOutcome("notFinished", TRUE, info.latest, TRUE, env.code,
                                  size, written, TRUE)
                ELSE OtaOutcome("restart", TRUE, info.latest, TRUE, env.code,
                                size, written, TRUE)

\* handleOta: the back-compat route.
handleOta(env) == handleOtaApply(env)

OtaRoutes == {"/ota_check", "/ota_apply", "/ota"}

OtaHandler(route, env) ==
  CASE route = "/ota_check" -> handleOtaCheck(env)
    [] route = "/ota_apply" -> handleOtaApply(env)
    [] route = "/ota"       -> handleOta(env)

\* server.handleClient() dispatching one OTA request once the routes are
\* registered; ESP.restart() puts the device back at boot.
OtaRequest ==
  /\ pc = "loop"
  /\ serverStarted
  /\ \E route \in OtaRoutes, env \in OtaEnvs :
       \E r \in {OtaHandler(route, env)} :
         /\ call' = [fn |-> route, a |-> 0, b |-> 0, applied |-> TRUE,
                     offline |-> prefsOffline, wifi |-> env.wifi, result |-> r]
         /\ IF r.restarted
              THEN /\ pc' = "boot"
                   /\ fsMounted' = FALSE
                   /\ fEntriesOpen' = FALSE
                   /\ fTextsOpen' = FALSE
                   /\ toc' = ZeroToc
                   /\ fsOk' = FALSE
                   /\ didFirstFullRefresh' = FALSE
                   /\ lastRenderedMinute' = -1
                   /\ setupScreenDrawn' = FALSE
                   /\ serverStarted' = FALSE
                   /\ offlineShown' = FALSE
                   /\ tick' = NoTick
                   /\ UNCHANGED <<disk, prefsOffline, prefsManualEpoch>>
              ELSE UNCHANGED progVars

InitOta ==
  /\ BootState
  /\ disk = [label |-> "littlefs", present |-> FileNames, openable |-> FileNames,
             tocLen |-> TocBytes, am |-> NoTocEntry, pm |-> NoTocEntry]
  /\ prefsOffline \in BOOLEAN
  /\ prefsManualEpoch \in BOOLEAN
  /\ call = NoCall

\* A loop() call on a connected device that has no config request to serve.
ConnectedTick == Loop([kind |-> "none", offline |-> FALSE, manual |-> FALSE], TRUE)

NextOta == Setup \/ ConnectedTick \/ OtaRequest

SpecOta == InitOta /\ [][NextOta]_vars

OtaHandled == call.fn \in OtaRoutes /\ call.applied

\* C21: while the Offline-mode preference is enabled no tick starts a
\* weather fetch, and no request to /ota_check, /ota_apply or /ota contacts
\* the release server, downloads or flashes firmware.
C21_OfflineDisablesNetwork ==
  /\ (Rendered /\ prefsOffline) =>
       \A due \in BOOLEAN : ~weatherRefresh(prefsOffline, tick.wifi, due)
  /\ (OtaHandled /\ call.offline) =>
       /\ ~call.result.contacted
       /\ ~call.result.downloaded
       /\ call.result.written = 0
       /\ ~call.result.restarted

-----------------------------------------------------------------------------
(* Offline mode with a manual time: the clock and fair loop() calls        *)

\* The readings of TickHours x TickMinutes in the order the system clock
\* passes them: the one after (hour, minute), the first after the last.
ReadingsAfter(hour, minute) ==
  { r \in TickHours \X TickMinutes : r[1] * 60 + r[2] > hour * 60 + minute }

NextReading(hour, minute) ==
  LET later == ReadingsAfter(hour, minute)
      pool  == IF later = {} THEN TickHours \X TickMinutes ELSE later
  IN  CHOOSE r \in pool : \A q \in pool : r[1] * 60 + r[2] <= q[1] * 60 + q[2]

\* The system clock is set from the manual epoch and runs on its own.
InitOffline ==
  /\ BootState
  /\ disk \in {d \in HealthyDisks : d.am.count > 0 /\ d.pm.count = 0}
  /\ prefsOffline = TRUE
  /\ prefsManualEpoch = TRUE
  /\ call = [fn |-> "clock", a |-> 0, b |-> 0, applied |-> FALSE, result |-> 0]

\* A loop() call with no config request pending: time(nullptr) reads the
\* system clock.
OfflineTick ==
  \E wifi \in BOOLEAN :
    /\ Loop([kind |-> "none", offline |-> FALSE, manual |-> FALSE], wifi)
    /\ tick'.kind \in {"render", "sameMinute"} =>
         (tick'.hour = call.a /\ tick'.minute = call.b)

\* The system clock reaches its next reading; loop() has run at least once
\* since the previous one, and has not yet run in this one.
ClockStep ==
  /\ pc = "loop"
  /\ tick # NoTick
  /\ LET r == NextReading(call.a, call.b)
     IN  call' = [call EXCEPT !.a = r[1], !.b = r[2]]
  /\ tick' = NoTick
  /\ UNCHANGED <<pc, disk, fsMounted, fEntriesOpen, fTextsOpen, toc, fsOk,
                 didFirstFullRefresh, lastRenderedMinute, setupScreenDrawn,
                 serverStarted, offlineShown, prefsOffline, prefsManualEpoch>>

NextOffline == Setup \/ OfflineTick \/ ClockStep

SpecOffline ==
  /\ InitOffline
  /\ [][NextOffline]_vars
  /\ WF_vars(Setup)
  /\ WF_vars(OfflineTick)
  /\ WF_vars(ClockStep)

\* C22: with Offline mode on and a manual time set, under fair loop()
\* calls, whenever the system clock has reached a new reading a home-screen
\* render showing the clock's hour and minute eventually follows, also
\* while Wi-Fi is not connected.
C22_OfflineClockRenders ==
  (pc = "loop" /\ call.fn = "clock" /\ tick = NoTick)
    ~> (Rendered /\ tick.hour = call.a /\ tick.minute = call.b /\ tick.render.painted)

-----------------------------------------------------------------------------
(* End to end: a tick at 03:16                                             *)

\* String(v) for an unsigned value: decimal, no padding.
RECURSIVE Decimal(_)
Decimal(v) ==
  IF v < 10 THEN <<DigitChars[v + 1]>>
  ELSE Decimal(v \div 10) \o <<DigitChars[(v % 10) + 1]>>

\* ref = bookName(bookId) + " " + String(chap) + ":" + String(vs), the book
\* name kept as one token; empty for bookId 0.
refText(bookId, chap, vs) ==
  IF bookId = 0 THEN << >>
  ELSE <<bookName(bookId), " ">> \o Decimal(chap) \o <<":">> \o Decimal(vs)

\* The clock readings at and around 03:16.
JohnReadings == {<<3, 16>>, <<15, 16>>, <<3, 17>>}

\* A loop() call on a connected, online device whose clock reads a minute
\* other than lastRenderedMinute: resolution and home-screen render, with
\* the glance preference and the panel width the render reads.
RenderTickAt ==
  /\ pc = "loop"
  /\ \E r \in JohnReadings, glance \in BOOLEAN, W \in PanelWidths, stale \in 0..MaxStale :
       /\ minuteChanged(r[2], lastRenderedMinute)
       /\ \E rs \in {resolve(fsOk, r[1], r[2], stale)} :
            \E screen \in {renderHomeScreen(didFirstFullRefresh, fsOk,
                                            IF rs.ok THEN rs.out.text ELSE << >>,
                                            rs.out.bookId, rs.out.chap, rs.out.vs)} :
              /\ setupScreenDrawn' = FALSE
              /\ serverStarted' = TRUE
              /\ lastRenderedMinute' = r[2]
              /\ didFirstFullRefresh' = TRUE
              /\ tick' = [kind |-> "render", wifi |-> TRUE, hour |-> r[1],
                          minute |-> r[2], lookups |-> rs.lookups,
                          faults |-> rs.faults, ok |-> rs.ok,
                          setupPaint |-> FALSE, render |-> screen]
              /\ call' = [fn |-> "loop", a |-> r[1], b |-> r[2], applied |-> TRUE,
                          glance |-> glance, W |-> W,
                          refText |-> IF screen.zone = "passage"
                                        THEN refText(rs.out.bookId, rs.out.chap, rs.out.vs)
                                        ELSE << >>,
                          result |-> passageZone(glance, W, screen)]
  /\ UNCHANGED <<pc, disk, fsMounted, fEntriesOpen, fTextsOpen, toc, fsOk,
                 offlineShown, prefsOffline, prefsManualEpoch>>

InitJohn ==
  /\ BootState
  /\ disk \in Disks
  /\ prefsOffline = FALSE
  /\ prefsManualEpoch = FALSE
  /\ call = NoCall

NextJohn == Setup \/ RenderTickAt

SpecJohn == InitJohn /\ [][NextJohn]_vars

TickedAt(hour, minute) ==
  call.fn = "loop" /\ call.applied /\ Rendered /\ tick.hour = hour /\ tick.minute = minute

\* C23: on a loaded store whose slot for 03:16 (slot 133) has count 1 and
\* points at the record {book 43, chapter 3, verse 16}, the render of a tick
\* at 03:16 shows the reference "John 3:16" (bookName maps 1..66 to the 66
\* names in order) and that record's text, wrapped to at most 6 lines, each
\* within 74% of the panel width.
C23_John316EndToEnd ==
  /\ Len(BOOKS) = 66
  /\ \A id \in 1..66 : bookName(id) = BOOKS[id]
  /\ BOOKS[1] = "Genesis" /\ BOOKS[43] = "John" /\ BOOKS[66] = "Revelation"
  /\ (TickedAt(3, 16) /\ fsOk
        /\ TocAt(toc, 133).count = 1
        /\ EntryAt(TocAt(toc, 133).offset * VerseEntrySize)
             = <<[book_id |-> 43, chapter |-> 3, verse |-> 16, text_offset |-> 0,
                  comp_len |-> 3, orig_len |-> 7]>>) =>
       /\ tick.lookups = <<133>>
       /\ tick.ok
       /\ tick.render.zone = "passage"
       /\ call.refText = <<"John", " ", "3", ":", "1", "6">>
       /\ tick.render.text = <<"F", "o", "r", " ", "G", "o", "d">>
       /\ Len(call.result.lines) \in 1..6
       /\ call.result.lines[1][1] = "F"
       /\ \A i \in 1..Len(call.result.lines) :
            textWidth(verseFont(call.glance), call.result.lines[i])
              <= (call.W * 74) \div 100

C23_Witness ==
  /\ TickedAt(3, 16) /\ fsOk /\ ~call.glance /\ call.W = 9
  /\ call.refText = <<"John", " ", "3", ":", "1", "6">>
  /\ call.result.lines = << <<"F", "o", "r">>, <<"G", "o", "d">> >>

-----------------------------------------------------------------------------
(* wrapLines: where lines are cut, termination, preservation of the text   *)

\* The trimmed text of the applied call and the run of its outer loop.
WrapText == trim(call.a)

WrapRun == wrapLoop(call.font, WrapText, call.b, call.c, 0, << >>)

\* The characters of the trimmed text at the 0-based indices from..to-1 fit
\* the width budget.
Fits(from, to) == textWidth(call.font, substring(WrapText, from, to)) <= call.b

\* C24: a line whose rest of the text fits takes all of it; a line that
\* overflows is cut at the last space at an index above the line start and
\* up to the first character that does not fit, that space being dropped and
\* the next line starting after it; with no such space it is broken at the
\* first character that does not fit, which starts the next line.
C24_CutRule ==
  WrapApplied =>
    /\ Len(WrapRun.cuts) = Len(WrapRun.lines)
    /\ \A i \in 1..Len(WrapRun.cuts) :
         LET c      == WrapRun.cuts[i]
             n      == Len(WrapText)
             over   == {e \in c.st..(n - 1) : ~Fits(c.st, e + 1)}
             first  == CHOOSE e \in over : \A j \in over : e <= j
             spaces == {k \in (c.st + 1)..first : WrapText[k + 1] = " "}
         IN  /\ WrapRun.lines[i] = trim(substring(WrapText, c.st, c.cut))
             /\ over = {} => (c.cut = n /\ c.next = n)
             /\ (over # {} /\ spaces # {}) =>
                  /\ c.cut \in spaces
                  /\ \A k \in spaces : k <= c.cut
                  /\ c.next = c.cut + 1
             /\ (over # {} /\ spaces = {}) =>
                  (c.cut = first /\ c.next = first)

C24_Witness ==
  /\ WrapApplied /\ call.font = "FreeSans12pt7b"
  /\ call.a = <<"i", "i", " ", "i">> /\ call.b = 3 /\ call.c = 2
  /\ call.result = << <<"i", "i">>, <<"i">> >>
  /\ WrapRun.cuts[1] = [st |-> 0, end |-> 3, cut |-> 2, next |-> 3]

-----------------------------------------------------------------------------
(* decodeUnishox: the output buffer                                        *)

\* char* buf = (char*)malloc(origLen + 1)
decodeBufferSize(origLen) == origLen + 1

\* The bytes unishox2_decompress_simple stores from buf[0] on: it is given
\* no output length, so it stores all it decodes.
decodeBytesWritten(comp) == Max(unishox2_decompress_simple(comp).len, 0)

\* C25: for every blob and every orig_len, also one smaller than the real
\* decompressed size, the bytes the transform writes and the terminator at
\* buf[origLen] lie inside the origLen + 1 bytes allocated.
C25_DecodeStaysInBuffer ==
  DecodeApplied =>
    /\ decodeBytesWritten(call.a) <= decodeBufferSize(call.b)
    /\ call.b < decodeBufferSize(call.b)

-----------------------------------------------------------------------------
(* loadVerse and decodeUnishox: malloc and free                            *)

HeapEvent(op, buf) == [op |-> op, buf |-> buf]

\* The malloc and free calls of one decodeUnishox call, in order; bufOk is
\* whether malloc(origLen + 1) returned a buffer.
decodeUnishoxHeap(comp, origLen, bufOk) ==
  IF ~bufOk THEN << >>
  ELSE IF unishox2_decompress_simple(comp).len < 0
    THEN <<HeapEvent("malloc", "buf"), HeapEvent("free", "buf")>>
    ELSE <<HeapEvent("malloc", "buf"), HeapEvent("free", "buf")>>

\* loadVerse returning from the short read without free(comp).
loadVerseHeapLeakOnShortRead(t, entriesOpen, textsOpen, slot, compOk, bufOk) ==
  IF slot < 0 \/ slot >= SLOT_COUNT THEN << >>
  ELSE IF TocAt(t, slot).count = 0 THEN << >>
  ELSE IF ~entriesOpen THEN << >>
  ELSE LET rd == EntryAt(TocAt(t, slot).offset * VerseEntrySize)
       IN  IF rd = << >> THEN << >>
           ELSE IF ~textsOpen THEN << >>
           ELSE IF ~compOk THEN << >>
           ELSE LET ve   == rd[1]
                    comp == TextAt(ve.text_offset, ve.comp_len)
                IN  IF comp = << >>
                      THEN <<HeapEvent("malloc", "comp")>>
                      ELSE <<HeapEvent("malloc", "comp")>>
                           \o decodeUnishoxHeap(comp[1], ve.orig_len, bufOk)
                           \o <<HeapEvent("free", "comp")>>

\* The malloc and free calls of one loadVerse call, in order; compOk is
\* whether malloc(ve.comp_len) returned a buffer.
loadVerseHeap(t, entriesOpen, textsOpen, slot, compOk, bufOk) ==
  IF slot < 0 \/ slot >= SLOT_COUNT THEN << >>
  ELSE IF TocAt(t, slot).count = 0 THEN << >>
  ELSE IF ~entriesOpen THEN << >>
  ELSE LET rd == EntryAt(TocAt(t, slot).offset * VerseEntrySize)
       IN  IF rd = << >> THEN << >>
           ELSE IF ~textsOpen THEN << >>
           ELSE IF ~compOk THEN << >>
           ELSE LET ve   == rd[1]
                    comp == TextAt(ve.text_offset, ve.comp_len)
                IN  IF comp = << >>
                      THEN <<HeapEvent("malloc", "comp"), HeapEvent("free", "comp")>>
                      ELSE <<HeapEvent("malloc", "comp")>>
                           \o decodeUnishoxHeap(comp[1], ve.orig_len, bufOk)
                           \o <<HeapEvent("free", "comp")>>

HeapBuffers == {"comp", "buf"}

\* The operations a trace applies to one buffer, in order.
OpsOn(trace, buf) ==
  LET F[i \in 0..Len(trace)] ==
        IF i = 0 THEN << >>
        ELSE IF trace[i].buf = buf THEN Append(F[i - 1], trace[i].op) ELSE F[i - 1]
  IN  F[Len(trace)]

LookupHeap(compOk, bufOk) ==
  loadVerseHeap(toc, fEntriesOpen, fTextsOpen, call.a, compOk, bufOk)

\* C26: on every path of a lookup (success, short read, decode error, a
\* malloc that returns NULL) each of the two buffers is either never
\* allocated or allocated once and then freed once: nothing is live when
\* the call returns and nothing is freed twice.
C26_BuffersFreedOnce ==
  LoadVerseCalled =>
    \A compOk \in BOOLEAN, bufOk \in BOOLEAN, buf \in HeapBuffers :
      OpsOn(LookupHeap(compOk, bufOk), buf) \in {<< >>, <<"malloc", "free">>}

C26_Witness ==
  /\ LoadVerseCalled
  /\ call.result.fault = "DecodeFailure"
  /\ LookupHeap(TRUE, TRUE) =
       <<HeapEvent("malloc", "comp"), HeapEvent("malloc", "buf"),
         HeapEvent("free", "buf"), HeapEvent("free", "comp")>>

-----------------------------------------------------------------------------
(* Firmware update: when the device restarts                               *)

OtaErrors ==
  {"wifiNotConnected", "lookupError", "beginDownloadFailed", "httpError",
   "updateBeginFailed", "updateEndFailed", "notFinished"}

\* C27: a request restarts the device only after the release lookup
\* succeeded, the latest tag differs from FW_VERSION, the download answered
\* 200, Update.begin took a size, every byte of the image was written and
\* Update.end and Update.isFinished both said yes; a latest tag equal to
\* FW_VERSION downloads and writes nothing; an error return restarts
\* nothing; and the device goes back to boot by no other step.
C27_RestartOnlyAfterFlash ==
  /\ [](OtaHandled =>
          /\ call.result.restarted =>
               /\ call.fn \in {"/ota_apply", "/ota"}
               /\ call.wifi
               /\ call.result.contacted
               /\ call.result.latest \notin {"", FW_VERSION}
               /\ call.result.downloaded
               /\ call.result.code = 200
               /\ call.result.size > 0
               /\ call.result.written = call.result.size
               /\ call.result.written = ImageSize
               /\ call.result.ended
               /\ isFinished(call.result.size, call.result.written)
          /\ call.result.latest = FW_VERSION =>
               /\ ~call.result.downloaded
               /\ call.result.written = 0
               /\ ~call.result.restarted
          /\ call.result.status \in OtaErrors => (~call.result.restarted /\ pc = "loop"))
  /\ [][(pc = "loop" /\ pc' = "boot") =>
          (call'.fn \in OtaRoutes /\ call'.result.status = "restart"
           /\ call'.result.ended /\ call'.result.written = ImageSize)]_vars

C27_Witness ==
  /\ OtaHandled
  /\ call.fn = "/ota_apply"
  /\ call.result.status = "restart"
  /\ call.result.written = ImageSize
  /\ pc = "boot"

-----------------------------------------------------------------------------
(* wrapLines: termination                                                  *)

\* C28: for every text, width budget (0 included), line limit (0 included)
\* and font (a glyph may be wider than the budget), the outer loop is
\* entered at most min(N, length of the trimmed text) times; every entry but
\* possibly the last emits a line, and an entry that emits a line leaves
\* the start index strictly greater than it found it.
C28_WrapTerminates ==
  WrapApplied =>
    /\ WrapRun.iters <= Min(call.c, Len(WrapText))
    /\ Len(WrapRun.cuts) \in {WrapRun.iters - 1, WrapRun.iters}
    /\ Len(call.result) = Len(WrapRun.cuts)
    /\ \A i \in 1..Len(WrapRun.cuts) :
         /\ WrapRun.cuts[i].next > WrapRun.cuts[i].st
         /\ WrapRun.cuts[i].next <= Len(WrapText)
         /\ i > 1 => WrapRun.cuts[i].st >= WrapRun.cuts[i - 1].next

\* A glyph wider than the budget: the second entry emits nothing and leaves.
C28_Witness ==
  /\ WrapApplied
  /\ call.a = <<"i", " ", "M">>
  /\ call.font = "FreeSans12pt7b"
  /\ call.b = 1
  /\ call.c = 3
  /\ WrapRun.iters = 2
  /\ call.result = << <<"i">> >>

-----------------------------------------------------------------------------
(* wrapLines: what becomes of the input characters                         *)

\* The index range [LineLeft(i), LineRight(i)) of the trimmed input that
\* line i keeps of its range [st, cut): both ends without the characters
\* trim() strips.
LineLeft(i) ==
  LET c    == WrapRun.cuts[i]
      keep == {k \in c.st..(c.cut - 1) : ~IsSpace(WrapText[k + 1])}
  IN  CHOOSE k \in keep : \A j \in keep : k <= j

LineRight(i) ==
  LET c    == WrapRun.cuts[i]
      keep == {k \in c.st..(c.cut - 1) : ~IsSpace(WrapText[k + 1])}
  IN  1 + CHOOSE k \in keep : \A j \in keep : k >= j

\* The lines are those the loop stored, the last one possibly with "...".
LinesButEllipsis ==
  /\ Len(call.result) = Len(WrapRun.cuts)
  /\ Len(WrapRun.lines) = Len(WrapRun.cuts)
  /\ \A i \in 1..Len(call.result) :
       \/ call.result[i] = WrapRun.lines[i]
       \/ i = Len(call.result) /\ call.result[i] = WrapRun.lines[i] \o Dots

\* Each line is the piece [LineLeft, LineRight) of the trimmed input and
\* the pieces follow each other without overlap.
LinesInOrder ==
  \A i \in 1..Len(WrapRun.cuts) :
    /\ 0 <= LineLeft(i) /\ LineLeft(i) < LineRight(i) /\ LineRight(i) <= Len(WrapText)
    /\ WrapRun.lines[i] = substring(WrapText, LineLeft(i), LineRight(i))
    /\ i > 1 => LineRight(i - 1) <= LineLeft(i)

\* The characters between line i - 1 and line i all lie in dropped.
GapsIn(dropped) ==
  \A i \in 2..Len(WrapRun.cuts) :
    \A k \in LineRight(i - 1)..(LineLeft(i) - 1) : WrapText[k + 1] \in dropped

\* All input was consumed: the first line starts the text and the last
\* line ends it.
WrapConsumed == WrapRun.start >= Len(WrapText) /\ Len(WrapRun.cuts) > 0

LinesCoverText ==
  WrapConsumed =>
    /\ LineLeft(1) = 0
    /\ LineRight(Len(WrapRun.cuts)) = Len(WrapText)
    /\ call.result = WrapRun.lines

\* C29 as stated: the lines, but for a final ellipsis, are pieces of the
\* trimmed input in order without overlap, the characters dropped between
\* two consecutive lines are all ' ', and when all input is consumed the
\* lines and the dropped spaces make up the trimmed input.
C29_OnlySpacesDropped ==
  WrapApplied =>
    /\ LinesButEllipsis
    /\ LinesInOrder
    /\ GapsIn({" "})
    /\ LinesCoverText

\* C29: as above, the characters dropped between two consecutive lines
\* being any of those trim() strips (' ', tab, newline, carriage return):
\* a ' ' skipped at the line start or cut, or white space that trim()
\* removed from the end or the start of a line.
C29_OnlyWhiteSpaceDropped ==
  WrapApplied =>
    /\ LinesButEllipsis
    /\ LinesInOrder
    /\ GapsIn({" ", "\t", "\n", "\r"})
    /\ LinesCoverText

C29_Witness ==
  /\ WrapApplied
  /\ call.a = <<"M", "\t", "M">>
  /\ call.font = "FreeSans12pt7b"
  /\ call.b = 5
  /\ call.c = 3
  /\ call.result = << <<"M">>, <<"M">> >>
  /\ WrapConsumed

-----------------------------------------------------------------------------
(* lastRenderedMinute and the render trigger                               *)

\* C30: lastRenderedMinute is -1 or a minute 0..59, the minute of the last
\* home-screen render: it changes only in a tick that paints the home
\* screen, to the minute that tick read.  A tick without Wi-Fi paints the
\* setup screen if it is the first of its disconnected period, paints no
\* home screen and leaves lastRenderedMinute alone; and a tick that reads a
\* time paints the home screen exactly when its minute differs from
\* lastRenderedMinute, whatever its hour and whatever was painted since.
C30_LastRenderedMinute ==
  /\ [](lastRenderedMinute = -1 \/ lastRenderedMinute \in 0..59)
  /\ []((lastRenderedMinute = -1) <=> ~didFirstFullRefresh)
  /\ [](Rendered => (tick.render.painted /\ lastRenderedMinute = tick.minute))
  /\ [][ /\ lastRenderedMinute' # lastRenderedMinute =>
              (tick'.kind = "render" /\ lastRenderedMinute' = tick'.minute)
         /\ tick'.kind = "noWifi" =>
              /\ ~tick'.render.painted
              /\ lastRenderedMinute' = lastRenderedMinute
              /\ tick'.setupPaint = ~setupScreenDrawn
              /\ setupScreenDrawn'
         /\ (tick'.kind \in {"render", "sameMinute"}) =>
              /\ ~setupScreenDrawn'
              /\ tick'.render.painted <=> (tick'.minute # lastRenderedMinute)
         /\ (pc = "loop" /\ tick'.kind # "render") => ~tick'.render.painted ]_vars

\* Wi-Fi lost after a home render at minute 30: the setup screen is painted
\* and the minute is kept.
C30_Witness ==
  /\ tick.kind = "noWifi"
  /\ tick.setupPaint
  /\ setupScreenDrawn
  /\ didFirstFullRefresh
  /\ lastRenderedMinute = 30

=============================================================================
